---------------------------- MODULE Spec2Model ----------------------------
(***************************************************************************)
(* A model of hwrepo_pipeline: the repository qualification run            *)
(* (pipeline.py), the change-pair miner (commit_miner.py) with its file    *)
(* classifier (diff_classifier.py) and commit clustering                   *)
(* (commit_cluster.py).                                                    *)
(*                                                                         *)
(* Python strings are TLA+ strings (Len, SubSeq and \o act on them);       *)
(* Python None is the value None; a Python list is a sequence.             *)
(***************************************************************************)
EXTENDS Integers, Sequences, FiniteSets, TLC

VARIABLES
    \* ---- CommitMiner.mine_repo (commit_miner.py) ----
    config,         \* the MinerConfig of the run
    mpc,            \* position inside mine_repo
    nPRs,           \* length of the merged-PR listing
    prN,            \* number of PRs of the listing the loop has consumed
    pr,             \* what is true of the PR the loop consumed last
    pairs,          \* List[CommitPair]
    rejects,        \* List[MinerRejectRecord]
    covered_shas,   \* Set[str] built by _mine_prs
    raw_commits,    \* the list_commits response
    clusterInput,   \* the commits handed to group_commits_by_author (<<>>: none)
    contributions,  \* the AuthorContributions cluster_commits returned
    error,          \* message of the exception mine_repo raised, or None
    listing_failed, \* whether a page request of the GraphQL PR listing failed
    clustering,     \* what cluster_commits worked with (NoneObject: not called)
    \* ---- run_miner (commit_miner.py) ----
    rpc,            \* position inside run_miner
    progress_path,  \* the progress_path argument: a path or None
    progress_file,  \* the journal on disk: whether it exists, and its lines
    output_file,    \* the lines of output_path on disk
    rejects_file,   \* the lines of rejects_path on disk
    at_start,       \* the three files as they were when run_miner started
    in_f,           \* the lines of input_path
    lineN,          \* number of input lines the loop has consumed
    processed_repos, \* Set[str] loaded from the journal
    mode,           \* the mode the output files are opened in
    mined,          \* the calls of miner.mine_repo so far and how each ended
    \* ---- run_pipeline and evaluate_repo (pipeline.py) ----
    ppc,            \* position inside run_pipeline / evaluate_repo
    pconfig,        \* the PipelineConfig of the run
    nCandidates,    \* length of the list discover_candidates returned
    candN,          \* number of candidates the loop has taken
    item,           \* the candidate under evaluation
    reasons,        \* evaluate_repo's reasons, in the order appended
    ci_files,       \* evaluate_repo's ci_files, from _get_ci_files to _collect_scan_paths
    scan_paths,     \* evaluate_repo's scan_paths, up to _scan_repo_for_tools
    result,         \* the (card, reject) evaluate_repo returned last
    cards_file,     \* the lines of output_path (accepted stream)
    rejected_file,  \* the lines of reject_path (rejects stream)
    perror,         \* message of the exception that left run_pipeline, or None
    locals,         \* evaluate_repo's sv_ratio, from get_languages to the card
    exchange,       \* what the step just taken was answered and computed
    \* ---- scan_text (scanner.py) ----
    scpc,           \* "loop" inside scan_text's loop, "returned" after it
    content,        \* the lines of scan_text's content (content.splitlines())
    idx,            \* number of lines the loop has taken
    allow_hits,     \* scan_text's allow_hits
    deny_hits,      \* scan_text's deny_hits
    \* ---- list_merged_prs_graphql / list_merged_prs_rest (github_client.py) ----
    lpc,            \* position inside the listing: "page", "nodes", "returned", "raised"
    api,            \* "graphql" or "rest": which of the two listings runs
    server,         \* the PRs the server lists, most recently updated first
    since,          \* the since argument: <<>> for None, else <<t>>
    max_prs,        \* the max_prs argument
    fetched,        \* how many of the server's PRs the pages fetched so far hold
    taken,          \* how many of them the loop over the nodes has taken
    prs,            \* the PRs returned (GraphQL) or yielded (REST) so far
    page_failed,    \* whether a page request failed
    \* ---- run_miner run again on the same files ----
    runs,           \* the number of run_miner runs started on the files so far
    \* ---- GitHubClient.request (github_client.py) ----
    qpc,            \* position inside request
    args,           \* the (method, url) request was called with
    attempts,       \* the session.request calls so far, each with its outcome
    resp,           \* the local resp
    clock,          \* what time.time() answered, None before it is read
    sleeps,         \* the arguments of the time.sleep calls so far
    \* ---- commit_cluster.py and merge_patches, called on their own ----
    kpc,            \* "call" before the function runs, "returned" after
    k_fn,           \* the function that is called
    k_commits,      \* its commits argument (List[CommitInfo])
    k_args,         \* its other arguments
    k_patches,      \* the argument of merge_patches
    k_result,       \* what the function returned
    k_regrouped     \* merge_patches of the same patches, merged in two stages

mineVars == <<config, mpc, nPRs, prN, pr, pairs, rejects, covered_shas,
              raw_commits, clusterInput, contributions, error, listing_failed,
              clustering>>

runVars == <<rpc, progress_path, progress_file, output_file, rejects_file,
             at_start, in_f, lineN, processed_repos, mode, mined>>

pipeVars == <<ppc, pconfig, nCandidates, candN, item, reasons, ci_files,
              scan_paths, result, cards_file, rejected_file, perror,
              locals, exchange>>

reqVars == <<qpc, args, attempts, resp, clock, sleeps>>

clusVars == <<kpc, k_fn, k_commits, k_args, k_patches, k_result, k_regrouped>>

scanVars == <<scpc, content, idx, allow_hits, deny_hits>>

listVars == <<lpc, api, server, since, max_prs, fetched, taken, prs, page_failed>>

resumeVars == <<runs>>

vars == <<mineVars, runVars, pipeVars, reqVars, clusVars, scanVars, listVars, resumeVars>>

otherThanMine == <<runVars, pipeVars, reqVars, clusVars, scanVars, listVars, resumeVars>>
otherThanRun == <<mineVars, pipeVars, reqVars, clusVars, scanVars, listVars, resumeVars>>
otherThanPipe == <<mineVars, runVars, reqVars, clusVars, scanVars, listVars, resumeVars>>
otherThanReq == <<mineVars, runVars, pipeVars, clusVars, scanVars, listVars, resumeVars>>
otherThanClus == <<mineVars, runVars, pipeVars, reqVars, scanVars, listVars, resumeVars>>
otherThanScan == <<mineVars, runVars, pipeVars, reqVars, clusVars, listVars, resumeVars>>
otherThanList == <<mineVars, runVars, pipeVars, reqVars, clusVars, scanVars, resumeVars>>
otherThanResume == <<mineVars, runVars, pipeVars, reqVars, clusVars, scanVars, listVars>>

None == "None"               \* None where a string is expected
NoneObject == [none |-> TRUE] \* None (JSON null) where an object is expected

-----------------------------------------------------------------------------
(* Bounds of the model.                                                    *)

MaxPRs == 2         \* merged PRs in one listing
MaxCommits == 3     \* commits in one list_commits response
MaxLines == 3       \* lines of the miner's input file
MaxCandidates == 2  \* candidates discover_candidates returns
MaxScanLines == 2   \* lines of one scanned text

-----------------------------------------------------------------------------
(* Strings.                                                                *)

Max(a, b) == IF a >= b THEN a ELSE b

CharAt(s, i) == SubSeq(s, i, i)

\* str.lower(), on the letters the model's strings use.
UpperToLower ==
    [c \in {"A", "B", "C", "D", "E", "F", "G", "H", "I", "J", "K", "L", "M",
            "N", "O", "P", "Q", "R", "S", "T", "U", "V", "W", "X", "Y", "Z"} |->
        CASE c = "A" -> "a" [] c = "B" -> "b" [] c = "C" -> "c" [] c = "D" -> "d"
          [] c = "E" -> "e" [] c = "F" -> "f" [] c = "G" -> "g" [] c = "H" -> "h"
          [] c = "I" -> "i" [] c = "J" -> "j" [] c = "K" -> "k" [] c = "L" -> "l"
          [] c = "M" -> "m" [] c = "N" -> "n" [] c = "O" -> "o" [] c = "P" -> "p"
          [] c = "Q" -> "q" [] c = "R" -> "r" [] c = "S" -> "s" [] c = "T" -> "t"
          [] c = "U" -> "u" [] c = "V" -> "v" [] c = "W" -> "w" [] c = "X" -> "x"
          [] c = "Y" -> "y" [] c = "Z" -> "z"]

RECURSIVE lower(_)
lower(s) ==
    IF s = "" THEN ""
    ELSE (IF Head(s) \in DOMAIN UpperToLower THEN UpperToLower[Head(s)] ELSE Head(s))
         \o lower(Tail(s))

\* str.rfind(c): the last position of the character c in s, 0 when absent.
RECURSIVE rfind(_, _)
rfind(s, c) ==
    IF s = "" THEN 0
    ELSE IF CharAt(s, Len(s)) = c THEN Len(s)
    ELSE rfind(SubSeq(s, 1, Len(s) - 1), c)

\* str.split("/") without the empty components: PurePosixPath(path).parts of a
\* relative path.
PathParts(path) ==
    LET RECURSIVE cut(_, _)
        cut(rest, cur) ==
            IF rest = "" THEN (IF cur = "" THEN <<>> ELSE <<cur>>)
            ELSE IF Head(rest) = "/"
                 THEN (IF cur = "" THEN <<>> ELSE <<cur>>) \o cut(Tail(rest), "")
                 ELSE cut(Tail(rest), cur \o Head(rest))
    IN  cut(path, "")

\* PurePosixPath(path).name
PathName(path) ==
    LET parts == PathParts(path)
    IN  IF parts = <<>> THEN "" ELSE parts[Len(parts)]

\* PurePosixPath(path).suffix: from the last dot of the name, unless the name
\* starts or ends with that dot.
PathSuffix(path) ==
    LET name == PathName(path)
        i == rfind(name, ".")
    IN  IF 1 < i /\ i < Len(name) THEN SubSeq(name, i, Len(name)) ELSE ""

\* fnmatch.fnmatch(name, pat) for patterns made of literals and "*".
RECURSIVE fnmatch(_, _)
fnmatch(name, pat) ==
    IF pat = "" THEN name = ""
    ELSE IF Head(pat) = "*"
         THEN fnmatch(name, Tail(pat)) \/ (name # "" /\ fnmatch(Tail(name), pat))
         ELSE name # "" /\ Head(name) = Head(pat) /\ fnmatch(Tail(name), Tail(pat))

-----------------------------------------------------------------------------
(* diff_classifier.py                                                      *)

VERILOG_EXTENSIONS == {".v", ".vh", ".sv", ".svh"}

TEST_FILE_PATTERNS ==
    <<"*_tb.sv", "*_tb.v", "tb_*.sv", "tb_*.v", "*_test.sv", "*_test.v",
      "*_tb_*.sv", "*_tb_*.v", "*testbench*.sv", "*testbench*.v">>

TEST_DIR_PATTERNS ==
    {"tb", "test", "tests", "testbench", "testbenches", "verif",
     "verification", "bench", "dv", "uvm", "cocotb"}

is_verilog_file(path) == lower(PathSuffix(path)) \in VERILOG_EXTENSIONS

is_test_file(path) ==
    LET parts == PathParts(path)
        filename == lower(PathName(path))
    IN  \/ \E k \in DOMAIN TEST_FILE_PATTERNS : fnmatch(filename, TEST_FILE_PATTERNS[k])
        \/ \E k \in 1..(Len(parts) - 1) : lower(parts[k]) \in TEST_DIR_PATTERNS

classify_file(path) ==
    IF ~is_verilog_file(path) THEN "other"
    ELSE IF is_test_file(path) THEN "test"
    ELSE "code"

\* One FilePatch built from an API file record (a record with filename,
\* additions, deletions and patch; patch is None when the API gave none).
FilePatchOf(f) ==
    [path |-> f.filename, patch_type |-> classify_file(f.filename),
     additions |-> f.additions, deletions |-> f.deletions, patch |-> f.patch]

SelectType(files, t) ==
    LET RECURSIVE go(_)
        go(i) ==
            IF i > Len(files) THEN <<>>
            ELSE (IF classify_file(files[i].filename) = t
                  THEN <<FilePatchOf(files[i])>> ELSE <<>>) \o go(i + 1)
    IN  go(1)

\* classify_files(files): (code_patches, test_patches, other_patches)
classify_files(files) ==
    [code |-> SelectType(files, "code"),
     test |-> SelectType(files, "test"),
     other |-> SelectType(files, "other")]

\* has_valid_patches(files, min_code, min_test): the loop with its early exit.
has_valid_patches_first_file(files, min_code, min_test) ==
    LET n == IF files = <<>> THEN 0 ELSE files[1].additions + files[1].deletions
        t == IF files = <<>> THEN "other" ELSE classify_file(files[1].filename)
    IN  /\ (IF t = "code" THEN n ELSE 0) >= min_code
        /\ (IF t = "test" THEN n ELSE 0) >= min_test

has_valid_patches_code_only(files, min_code, min_test) ==
    LET RECURSIVE loop(_, _)
        loop(i, code_count) ==
            IF i > Len(files) THEN code_count >= min_code
            ELSE LET t == classify_file(files[i].filename)
                     n == files[i].additions + files[i].deletions
                     c == IF t = "code" THEN code_count + n ELSE code_count
                 IN  IF c >= min_code THEN TRUE ELSE loop(i + 1, c)
    IN  loop(1, 0)

has_valid_patches(files, min_code, min_test) ==
    LET RECURSIVE loop(_, _, _)
        loop(i, code_count, test_count) ==
            IF i > Len(files)
            THEN code_count >= min_code /\ test_count >= min_test
            ELSE LET t == classify_file(files[i].filename)
                     n == files[i].additions + files[i].deletions
                     c == IF t = "code" THEN code_count + n ELSE code_count
                     u == IF t = "test" THEN test_count + n ELSE test_count
                 IN  IF c >= min_code /\ u >= min_test THEN TRUE
                     ELSE loop(i + 1, c, u)
    IN  loop(1, 0, 0)

-----------------------------------------------------------------------------
(* config.py: MinerConfig                                                  *)

DefaultMinCodeChanges == 5
DefaultMinTestChanges == 5
DefaultClusterTimeWindowHours == 24
DefaultAuthorTimeWindowDays == 60
DefaultMinCommitsPerContribution == 1

\* MinerConfig(), the defaults.
DefaultMinerConfig ==
    [use_graphql |-> TRUE,
     enable_cluster_mining |-> TRUE,
     author_time_window_days |-> DefaultAuthorTimeWindowDays,
     min_commits_per_contribution |-> DefaultMinCommitsPerContribution,
     cluster_time_window_hours |-> DefaultClusterTimeWindowHours,
     min_code_changes |-> DefaultMinCodeChanges,
     min_test_changes |-> DefaultMinTestChanges]

\* The configurations load_miner_config and the CLI overrides can produce,
\* over the fields mine_repo reads.
MinerConfigs ==
    { [DefaultMinerConfig EXCEPT !.use_graphql = g, !.enable_cluster_mining = e,
                                 !.min_code_changes = c, !.min_test_changes = t] :
        g \in BOOLEAN, e \in BOOLEAN,
        c \in {0, DefaultMinCodeChanges}, t \in {0, DefaultMinTestChanges} }

-----------------------------------------------------------------------------
(* The remote repository mine_repo works on: what the API can answer.      *)

Repo == "owner/repo"

\* bool(x) of an optional string.
Truthy(x) == x # None /\ x # ""

File(path, a, d) ==
    [filename |-> path, additions |-> a, deletions |-> d, patch |-> "@@ " \o path]

\* The changed-file lists a PR can carry (REST shape: filename, additions,
\* deletions, patch).
FileLists ==
    { <<>>,
      <<File("src/alu.sv", 10, 2)>>,
      <<File("tb/alu_tb.sv", 20, 0)>>,
      <<File("README.md", 5, 0)>>,
      <<File("src/alu.sv", 10, 2), File("tb/alu_tb.sv", 20, 0)>>,
      <<File("src/alu.sv", 1, 0), File("tb/alu_tb.sv", 20, 0)>>,
      <<File("SRC/ALU.SV", 10, 2), File("sim/alu_test.v", 1, 1)>> }

\* What is true of the n-th merged PR of a listing: its merge commit (None
\* when the API reports none), its base commit, its changed files, and
\* whether the per-PR file request of the REST mode fails.
PRFacts(n) ==
    [number : {n}, merge : {None, "m" \o ToString(n)}, base : {None, "aaaa"},
     files : FileLists, files_error : BOOLEAN]

\* The PR as list_merged_prs_graphql returns it (github_client.py, the
\* query's node): mergeCommit is null or an object, files are inline nodes
\* with path, additions and deletions.
GraphQLNode(f) ==
    [number |-> f.number,
     baseRefOid |-> f.base,
     mergeCommit |-> IF f.merge = None THEN NoneObject ELSE [oid |-> f.merge],
     files |-> [nodes |-> [i \in DOMAIN f.files |->
                    [path |-> f.files[i].filename,
                     additions |-> f.files[i].additions,
                     deletions |-> f.files[i].deletions]]]]

\* The PR as list_merged_prs_rest yields it.
RestPR(f) ==
    [number |-> f.number, merge_commit_sha |-> f.merge, base |-> [sha |-> f.base]]

-----------------------------------------------------------------------------
(* diff_classifier.py: overlap and merging; commit_cluster.py              *)

\* A ratio is kept exact, as <<numerator, denominator>>.
RatioGE(r, t) == r[1] * t[2] >= t[1] * r[2]

Overlap02 == <<1, 5>>       \* 0.2, the default file_overlap_threshold
Overlap05 == <<1, 2>>       \* 0.5, the "definitely same feature" overlap

\* compute_file_overlap(files1, files2), on the sets of paths.
compute_file_overlap_of_first(files1, files2) ==
    IF files1 = {} \/ files2 = {} THEN <<0, 1>>
    ELSE <<Cardinality(files1 \cap files2), Cardinality(files1)>>

compute_file_overlap(files1, files2) ==
    IF files1 = {} \/ files2 = {} THEN <<0, 1>>
    ELSE <<Cardinality(files1 \cap files2), Cardinality(files1 \cup files2)>>

\* existing merged with a later patch of the same path (merge_patches).
MergeTwoLatestOnly(existing, patch) == patch

MergeTwo(existing, patch) ==
    [path |-> patch.path, patch_type |-> patch.patch_type,
     additions |-> existing.additions + patch.additions,
     deletions |-> existing.deletions + patch.deletions,
     patch |-> patch.patch]

\* by_path[patch.path] = ... on a dict kept as the list of its values in
\* insertion order.
DictPut(by_path, patch) ==
    IF \E i \in DOMAIN by_path : by_path[i].path = patch.path
    THEN [i \in DOMAIN by_path |->
            IF by_path[i].path = patch.path THEN MergeTwo(by_path[i], patch)
            ELSE by_path[i]]
    ELSE Append(by_path, patch)

RECURSIVE Flatten(_)
Flatten(lists) ==
    IF lists = <<>> THEN <<>> ELSE Head(lists) \o Flatten(Tail(lists))

\* merge_patches(patches_list): (merged code patches, merged test patches)
merge_patches(patches_list) ==
    LET all == Flatten(patches_list)
        RECURSIVE fold(_, _, _)
        fold(i, code_by_path, test_by_path) ==
            IF i > Len(all) THEN [code |-> code_by_path, test |-> test_by_path]
            ELSE IF all[i].patch_type = "code"
                 THEN fold(i + 1, DictPut(code_by_path, all[i]), test_by_path)
            ELSE IF all[i].patch_type = "test"
                 THEN fold(i + 1, code_by_path, DictPut(test_by_path, all[i]))
            ELSE fold(i + 1, code_by_path, test_by_path)
    IN  fold(1, <<>>, <<>>)

\* Authored timestamps are hours since an epoch; (b - a).days of the two
\* parsed datetimes.
HoursPerDay == 24
DaysBetween(a, b) == (b - a) \div HoursPerDay

SortByDateNot(commits) == commits

\* sorted(commits, key=lambda c: c.authored_date): a stable sort.
RECURSIVE SortByDate(_)
SortByDate(commits) ==
    IF commits = <<>> THEN <<>>
    ELSE LET rest == SortByDate(SubSeq(commits, 1, Len(commits) - 1))
             c == commits[Len(commits)]
             k == Cardinality({i \in DOMAIN rest : rest[i].authored_date <= c.authored_date})
         IN  SubSeq(rest, 1, k) \o <<c>> \o SubSeq(rest, k + 1, Len(rest))

PathsOf(commit) == {commit.files[i].path : i \in DOMAIN commit.files}

\* cluster_author_commits_by_feature(commits, time_window_days,
\* file_overlap_threshold)
cluster_author_commits_by_feature(commits, time_window_days, file_overlap_threshold) ==
    IF commits = <<>> THEN <<>>
    ELSE
    LET sorted_commits == SortByDate(commits)
        RECURSIVE loop(_, _, _, _, _)
        loop(i, clusters, current_cluster, current_files, last_time) ==
            IF i > Len(sorted_commits) THEN Append(clusters, current_cluster)
            ELSE LET commit == sorted_commits[i]
                     time_gap == DaysBetween(last_time, commit.authored_date)
                     file_overlap == compute_file_overlap(current_files, PathsOf(commit))
                     same_feature ==
                        \/ /\ time_gap <= time_window_days
                           /\ RatioGE(file_overlap, file_overlap_threshold)
                        \/ RatioGE(file_overlap, Overlap05)
                 IN  IF same_feature
                     THEN loop(i + 1, clusters, Append(current_cluster, commit),
                               current_files \cup PathsOf(commit), commit.authored_date)
                     ELSE loop(i + 1, Append(clusters, current_cluster), <<commit>>,
                               PathsOf(commit), commit.authored_date)
    IN  loop(2, <<>>, <<sorted_commits[1]>>, PathsOf(sorted_commits[1]),
             sorted_commits[1].authored_date)

\* group_commits_by_author(commits): the authors in order of first
\* appearance, each with its commits in input order.
AuthorsInOrder(commits) ==
    LET RECURSIVE go(_, _)
        go(i, seen) ==
            IF i > Len(commits) THEN seen
            ELSE IF \E k \in DOMAIN seen : seen[k] = commits[i].author
                 THEN go(i + 1, seen)
                 ELSE go(i + 1, Append(seen, commits[i].author))
    IN  go(1, <<>>)

CommitsOfAuthor(commits, author) ==
    LET RECURSIVE go(_)
        go(i) ==
            IF i > Len(commits) THEN <<>>
            ELSE (IF commits[i].author = author THEN <<commits[i]>> ELSE <<>>)
                 \o go(i + 1)
    IN  go(1)

\* generate_contribution_id: the first 12 hex digits of SHA-256 of
\* "repo:author:<the first five SHAs' 8-character prefixes>".  The digest is
\* kept as the text it is taken of.
generate_contribution_id(repo, author, commits) ==
    LET RECURSIVE concat(_)
        concat(i) ==
            IF i > Len(commits) \/ i > 5 THEN ""
            ELSE SubSeq(commits[i].sha, 1, IF Len(commits[i].sha) < 8
                                           THEN Len(commits[i].sha) ELSE 8)
                 \o concat(i + 1)
    IN  repo \o ":" \o author \o ":" \o concat(1)

MaxMessageLen == 100

\* commit.message.split("\n")[0][:100]
RECURSIVE FirstLine(_)
FirstLine(message) ==
    IF message = "" \/ Head(message) = "\n" THEN ""
    ELSE Head(message) \o FirstLine(Tail(message))

MessageSummary(message) ==
    SubSeq(FirstLine(message), 1,
           IF Len(FirstLine(message)) < MaxMessageLen THEN Len(FirstLine(message))
           ELSE MaxMessageLen)

\* The AuthorContribution of one feature cluster, or <<>> when the cluster
\* is dropped (collect_author_contributions, the loop body).
ContributionOf(repo, author, cluster0, min_commits) ==
    IF Len(cluster0) < min_commits THEN <<>>
    ELSE LET cluster == SortByDate(cluster0)
             merged == merge_patches([i \in DOMAIN cluster |-> cluster[i].files])
         IN  IF merged.code = <<>> \/ merged.test = <<>> THEN <<>>
             ELSE << [repo |-> repo,
                      author |-> author,
                      contribution_id |-> generate_contribution_id(repo, author, cluster),
                      commits |-> [i \in DOMAIN cluster |-> cluster[i].sha],
                      first_commit_date |-> cluster[1].authored_date,
                      last_commit_date |-> cluster[Len(cluster)].authored_date,
                      code_patches |-> merged.code,
                      test_patches |-> merged.test,
                      commit_messages |-> [i \in DOMAIN cluster |->
                                            MessageSummary(cluster[i].message)],
                      validation_status |-> "pending"] >>

\* collect_author_contributions(repo, commits, time_window_days, min_commits)
collect_author_contributions(repo, commits, time_window_days, min_commits) ==
    LET authors == AuthorsInOrder(commits)
        OfAuthor(a) ==
            LET feature_clusters ==
                    cluster_author_commits_by_feature(
                        CommitsOfAuthor(commits, a), time_window_days, Overlap02)
            IN  Flatten([k \in DOMAIN feature_clusters |->
                            ContributionOf(repo, a, feature_clusters[k], min_commits)])
    IN  Flatten([j \in DOMAIN authors |-> OfAuthor(authors[j])])

\* cluster_commits: the commits it hands on after its own covered-SHA filter.
Uncovered(commits, covered) ==
    LET RECURSIVE go(_)
        go(i) ==
            IF i > Len(commits) THEN <<>>
            ELSE (IF commits[i].sha \in covered THEN <<>> ELSE <<commits[i]>>)
                 \o go(i + 1)
    IN  go(1)

LegacyWindowHours == 1440   \* 24 * 60
LegacyWindowDays == 60
MinCommitsInClusterCommits == 1

\* cluster_commits: the hours-to-days conversion of its time window.
TimeWindowDays(time_window_hours) ==
    IF time_window_hours < LegacyWindowHours
    THEN Max(1, time_window_hours \div HoursPerDay)
    ELSE LegacyWindowDays

\* cluster_commits(repo, commits, time_window_hours, file_overlap_threshold,
\* covered_shas)
cluster_commits(repo, commits, time_window_hours, covered) ==
    IF Uncovered(commits, covered) = <<>> THEN <<>>
    ELSE collect_author_contributions(repo, Uncovered(commits, covered),
                                      TimeWindowDays(time_window_hours),
                                      MinCommitsInClusterCommits)

-----------------------------------------------------------------------------
(* commit_miner.py: CommitMiner._mine_prs                                  *)

MinerReject(source_type, source_id, reason) ==
    [repo |-> Repo, source_type |-> source_type, source_id |-> source_id,
     reasons |-> <<reason>>]

\* The API object of a PR, in the shape of the configured mode.
PRObject(cfg, f) == IF cfg.use_graphql THEN GraphQLNode(f) ELSE RestPR(f)

\* pr.get("mergeCommit", {}).get("oid") raises AttributeError when the node
\* carries mergeCommit: null (the default {} stands in for a missing key only).
MergeShaRaises(cfg, p) == cfg.use_graphql /\ p.mergeCommit = NoneObject

merge_sha_of(cfg, p) ==
    IF cfg.use_graphql THEN p.mergeCommit.oid ELSE p.merge_commit_sha

base_sha_of(cfg, p) ==
    IF cfg.use_graphql THEN p.baseRefOid ELSE p.base.sha

\* GraphQL: the inline file nodes converted to the REST keys (no patch text);
\* REST: the answer of get_pr_files.
files_of(cfg, p, f) ==
    IF cfg.use_graphql
    THEN [i \in DOMAIN p.files.nodes |->
            [filename |-> p.files.nodes[i].path,
             additions |-> p.files.nodes[i].additions,
             deletions |-> p.files.nodes[i].deletions,
             patch |-> None]]
    ELSE f.files

\* if not code_patches / if not test_patches
NoCodePatches(code_patches) == code_patches = <<>>

NoTestPatchesNever(test_patches) == FALSE

NoTestPatches(test_patches) == test_patches = <<>>

\* if merge_sha: covered_shas.add(merge_sha)
CoveredAfterNever(covered, merge_sha) == covered

CoveredAfter(covered, merge_sha) ==
    IF Truthy(merge_sha) THEN covered \cup {merge_sha} ELSE covered

\* The way one iteration of the loop over prs ends, for the PR with facts f:
\* "raise", the reason of the reject it appends before "continue", or "pair".
PRVerdict(cfg, f) ==
    LET p == PRObject(cfg, f)
    IN
    IF MergeShaRaises(cfg, p) THEN "raise"
    ELSE IF ~Truthy(base_sha_of(cfg, p)) \/ ~Truthy(merge_sha_of(cfg, p))
    THEN "missing base_sha or merge_sha"
    ELSE IF ~cfg.use_graphql /\ f.files_error THEN "raise"
    ELSE IF ~has_valid_patches(files_of(cfg, p, f),
                               cfg.min_code_changes, cfg.min_test_changes)
    THEN "insufficient code or test changes"
    ELSE IF NoCodePatches(classify_files(files_of(cfg, p, f)).code)
    THEN "no Verilog/SV code changes"
    ELSE IF NoTestPatches(classify_files(files_of(cfg, p, f)).test)
    THEN "no test file changes"
    ELSE "pair"

\* The exception an iteration raises.
PRException(cfg, f) ==
    IF MergeShaRaises(cfg, PRObject(cfg, f))
    THEN "'NoneType' object has no attribute 'get'"
    ELSE "500: get_pr_files"

\* Whether the iteration reaches pairs.append(pair): every reject is followed
\* by "continue".
ReachesPairNoContinue(verdict) == verdict \in {"pair", "no test file changes"}

ReachesPair(verdict) == verdict = "pair"

\* One iteration of the loop over prs, on the PR with facts f: the exception
\* raised (or None), the SHAs added to covered_shas and the records appended.
mine_pr_body(cfg, f) ==
    LET p == PRObject(cfg, f)
        verdict == PRVerdict(cfg, f)
    IN
    IF verdict = "raise"
    THEN [raised |-> PRException(cfg, f), covered |-> {}, pairs |-> <<>>,
          rejects |-> <<>>]
    ELSE
    LET classified == classify_files(files_of(cfg, p, f))
    IN  [raised |-> None,
         covered |-> CoveredAfter({}, merge_sha_of(cfg, p)),
         rejects |-> IF verdict = "pair" THEN <<>>
                     ELSE <<MinerReject("pr", ToString(p.number), verdict)>>,
         pairs |-> IF ReachesPair(verdict)
                   THEN << [repo |-> Repo,
                            base_sha |-> base_sha_of(cfg, p),
                            target_sha |-> merge_sha_of(cfg, p),
                            source_type |-> "pr",
                            source_id |-> ToString(p.number),
                            code_patches |-> classified.code,
                            test_patches |-> classified.test,
                            validation_status |-> "pending"] >>
                   ELSE <<>>]

-----------------------------------------------------------------------------
(* commit_miner.py: CommitMiner._mine_clusters                             *)

RawCommit(sha, name, date) ==
    [sha |-> sha,
     commit |-> [message |-> "change " \o sha, author |-> [name |-> name, date |-> date]],
     parents |-> <<>>]

\* The commits of the repository: the merge commit of PR 1; c1, c2 and c3 of
\* one author over 12 days; and c4, a small change of the same author 30
\* days after c3.  Dates are in hours.
RepoCommits ==
    { RawCommit("m1", "alice", 0),
      RawCommit("c1", "alice", 2 * HoursPerDay),
      RawCommit("c2", "alice", 8 * HoursPerDay),
      RawCommit("c3", "alice", 14 * HoursPerDay),
      RawCommit("c4", "alice", 44 * HoursPerDay) }

\* What get_commit_files answers for a commit of the repository.
CommitFiles(sha) ==
    CASE sha \in {"c1", "c2", "c3"} ->
            <<File("rtl/core.sv", 4, 1), File("test/core_tb.sv", 6, 0)>>
      [] sha = "c4" ->
            <<File("rtl/core.sv", 1, 1), File("rtl/alu.sv", 1, 0),
              File("tb/alu_tb.sv", 2, 0)>>
      [] OTHER -> <<File("src/alu.sv", 10, 2), File("tb/alu_tb.sv", 20, 0)>>

RECURSIVE ListingsOver(_, _)
ListingsOver(commits, n) ==
    IF n = 0 THEN {<<>>}
    ELSE {<<>>} \cup
         UNION { { <<c>> \o rest : rest \in ListingsOver(commits \ {c}, n - 1) } :
                 c \in commits }

\* for c in raw_commits: skip the covered SHAs, build the CommitInfo (with
\* no files).
ToCommitInfos(raw, covered) ==
    LET RECURSIVE go(_)
        go(i) ==
            IF i > Len(raw) THEN <<>>
            ELSE (IF raw[i].sha \in covered THEN <<>>
                  ELSE << [sha |-> raw[i].sha,
                           message |-> raw[i].commit.message,
                           author |-> raw[i].commit.author.name,
                           authored_date |-> raw[i].commit.author.date,
                           parents |-> raw[i].parents,
                           files |-> <<>>] >>) \o go(i + 1)
    IN  go(1)

\* The covered_shas argument mine_repo passes to _mine_clusters.
ClusterCoveredEmpty(covered) == {}

ClusterCovered(covered) == covered

\* The feature clusters collect_author_contributions forms of the commits,
\* author by author.
FeatureClusters(commits, time_window_days) ==
    LET authors == AuthorsInOrder(commits)
    IN  Flatten([j \in DOMAIN authors |->
                    cluster_author_commits_by_feature(
                        CommitsOfAuthor(commits, authors[j]), time_window_days,
                        Overlap02)])

\* _mine_clusters after list_commits answered raw: the commits that reach
\* collect_author_contributions, the time window and the feature clusters
\* it works with, the contributions that come back, and the exception raised
\* by the loop over them (an AuthorContribution has no base_sha).
mine_clusters(cfg, raw, covered) ==
    LET commits == ToCommitInfos(raw, ClusterCovered(covered))
        clusters == cluster_commits(Repo, commits, cfg.cluster_time_window_hours,
                                    ClusterCovered(covered))
    IN  [input |-> IF commits = <<>> THEN <<>>
                   ELSE Uncovered(commits, ClusterCovered(covered)),
         clustering |->
            IF commits = <<>> THEN NoneObject
            ELSE [time_window_days |-> TimeWindowDays(cfg.cluster_time_window_hours),
                  min_commits |-> MinCommitsInClusterCommits,
                  feature_clusters |->
                      FeatureClusters(Uncovered(commits, ClusterCovered(covered)),
                                      TimeWindowDays(cfg.cluster_time_window_hours))],
         clusters |-> IF commits = <<>> THEN <<>> ELSE clusters,
         raised |-> IF commits # <<>> /\ clusters # <<>>
                    THEN "'AuthorContribution' object has no attribute 'base_sha'"
                    ELSE None]

-----------------------------------------------------------------------------
(* commit_miner.py: CommitMiner.mine_repo, step by step                    *)

\* run_pipeline is not running.
PipeIdle ==
    /\ ppc = "idle"
    /\ pconfig = NoneObject
    /\ nCandidates = 0
    /\ candN = 0
    /\ item = NoneObject
    /\ reasons = <<>>
    /\ ci_files = <<>>
    /\ scan_paths = <<>>
    /\ result = NoneObject
    /\ cards_file = <<>>
    /\ rejected_file = <<>>
    /\ perror = None
    /\ locals = NoneObject
    /\ exchange = NoneObject

\* GitHubClient.request is not running.
ReqIdle ==
    /\ qpc = "idle"
    /\ args = NoneObject
    /\ attempts = <<>>
    /\ resp = NoneObject
    /\ clock = None
    /\ sleeps = <<>>

\* scan_text is not running.
ScanIdle ==
    /\ scpc = "idle"
    /\ content = <<>>
    /\ idx = 0
    /\ allow_hits = <<>>
    /\ deny_hits = <<>>

\* No merged-PR listing is running.
ListIdle ==
    /\ lpc = "idle"
    /\ api = None
    /\ server = <<>>
    /\ since = <<>>
    /\ max_prs = 0
    /\ fetched = 0
    /\ taken = 0
    /\ prs = <<>>
    /\ page_failed = FALSE

\* run_miner is not run again.
ResumeIdle ==
    /\ runs = 0

\* None of the clustering functions is called on its own.
ClusIdle ==
    /\ kpc = "idle"
    /\ k_fn = None
    /\ k_commits = <<>>
    /\ k_args = NoneObject
    /\ k_patches = <<>>
    /\ k_result = NoneObject
    /\ k_regrouped = {}

\* run_miner is not running.
RunIdle ==
    /\ rpc = "idle"
    /\ progress_path = None
    /\ progress_file = [exists |-> FALSE, lines |-> <<>>]
    /\ output_file = <<>>
    /\ rejects_file = <<>>
    /\ at_start = [progress |-> progress_file, output |-> <<>>, rejects |-> <<>>]
    /\ in_f = <<>>
    /\ lineN = 0
    /\ processed_repos = {}
    /\ mode = None
    /\ mined = <<>>

MineInit ==
    /\ ResumeIdle
    /\ ListIdle
    /\ ScanIdle
    /\ RunIdle
    /\ PipeIdle
    /\ ReqIdle
    /\ ClusIdle
    /\ config \in MinerConfigs
    /\ mpc = "list_prs"
    /\ nPRs = 0
    /\ prN = 0
    /\ pr = NoneObject
    /\ pairs = <<>>
    /\ rejects = <<>>
    /\ covered_shas = {}
    /\ raw_commits = <<>>
    /\ clusterInput = <<>>
    /\ contributions = <<>>
    /\ error = None
    /\ listing_failed = FALSE
    /\ clustering = NoneObject

\* list_merged_prs_graphql / list_merged_prs_rest answers with a listing.
\* The PRs of the listing are drawn as the loop reaches them.
ListMergedPRs ==
    /\ UNCHANGED otherThanMine
    /\ mpc = "list_prs"
    /\ \E n \in 0..MaxPRs : nPRs' = n
    /\ mpc' = "prs"
    /\ UNCHANGED <<config, prN, pr, pairs, rejects, covered_shas, raw_commits,
                   clusterInput, contributions, error, listing_failed, clustering>>

\* The listing request raises: get_json's HTTPError in REST mode, an
\* exception other than HTTPError (a connection error) in GraphQL mode.
ListMergedPRsRaises ==
    /\ UNCHANGED otherThanMine
    /\ mpc = "list_prs"
    /\ mpc' = "raised"
    /\ error' = IF config.use_graphql THEN "connection error" ELSE "500: pulls"
    /\ UNCHANGED <<config, nPRs, prN, pr, pairs, rejects, covered_shas,
                   raw_commits, clusterInput, contributions, listing_failed, clustering>>

\* list_merged_prs_graphql: post_graphql raises HTTPError for a page (the
\* first or a later one); the loop logs a warning, breaks, and the PRs of the
\* pages before it are returned as the listing.
ListMergedPRsGraphQLFails ==
    /\ UNCHANGED otherThanMine
    /\ mpc = "list_prs"
    /\ config.use_graphql
    /\ \E n \in 0..(MaxPRs - 1) : nPRs' = n
    /\ listing_failed' = TRUE
    /\ mpc' = "prs"
    /\ UNCHANGED <<config, prN, pr, pairs, rejects, covered_shas, raw_commits,
                   clusterInput, contributions, error, clustering>>

NextPRFacts ==
    {f \in PRFacts(prN + 1) : config.use_graphql => ~f.files_error}

\* One iteration of "for pr in prs" that runs to its end.
MinePR ==
    /\ UNCHANGED otherThanMine
    /\ mpc = "prs"
    /\ prN < nPRs
    /\ \E f \in NextPRFacts :
         \E r \in {mine_pr_body(config, f)} :
             /\ r.raised = None
             /\ pr' = f
             /\ covered_shas' = covered_shas \cup r.covered
             /\ pairs' = pairs \o r.pairs
             /\ rejects' = rejects \o r.rejects
    /\ prN' = prN + 1
    /\ UNCHANGED <<config, mpc, nPRs, raw_commits, clusterInput, contributions,
                   error, listing_failed, clustering>>

\* One iteration that raises: mine_repo returns nothing.
MinePRRaises ==
    /\ UNCHANGED otherThanMine
    /\ mpc = "prs"
    /\ prN < nPRs
    /\ \E f \in NextPRFacts :
         \E r \in {mine_pr_body(config, f)} :
             /\ r.raised # None
             /\ pr' = f
             /\ error' = r.raised
    /\ prN' = prN + 1
    /\ mpc' = "raised"
    /\ UNCHANGED <<config, nPRs, pairs, rejects, covered_shas, raw_commits,
                   clusterInput, contributions, listing_failed, clustering>>

\* The loop is over: _mine_prs returns; mine_repo goes on to the cluster
\* phase if it is enabled and returns otherwise.
MinePRsDone ==
    /\ UNCHANGED otherThanMine
    /\ mpc = "prs"
    /\ prN = nPRs
    /\ mpc' = IF config.enable_cluster_mining THEN "clusters" ELSE "returned"
    /\ pr' = NoneObject      \* the loop variable is dead from here on
    /\ UNCHANGED <<config, nPRs, prN, pairs, rejects, covered_shas,
                   raw_commits, clusterInput, contributions, error, listing_failed, clustering>>

\* The commits of a set, newest first, as list_commits yields them.
RECURSIVE NewestFirst(_)
NewestFirst(commits) ==
    IF commits = {} THEN <<>>
    ELSE LET c == CHOOSE x \in commits :
                    \A y \in commits : y.commit.author.date <= x.commit.author.date
         IN  <<c>> \o NewestFirst(commits \ {c})

\* The list_commits answers: the repository holds some of RepoCommits since
\* the lookback date.
CommitListings ==
    {NewestFirst(S) : S \in {T \in SUBSET RepoCommits : Cardinality(T) <= MaxCommits}}

\* _mine_clusters with list_commits answering.
MineClusters ==
    /\ UNCHANGED otherThanMine
    /\ mpc = "clusters"
    /\ \E raw \in CommitListings :
         \E r \in {mine_clusters(config, raw, covered_shas)} :
             /\ raw_commits' = raw
             /\ clusterInput' = r.input
             /\ clustering' = r.clustering
             /\ contributions' = r.clusters
             /\ error' = r.raised
             /\ mpc' = IF r.raised = None THEN "returned" ELSE "raised"
    /\ UNCHANGED <<config, nPRs, prN, pr, pairs, rejects, covered_shas, listing_failed>>

\* list_commits raises (get_json's HTTPError).
MineClustersRaises ==
    /\ UNCHANGED otherThanMine
    /\ mpc = "clusters"
    /\ mpc' = "raised"
    /\ error' = "500: commits"
    /\ UNCHANGED <<config, nPRs, prN, pr, pairs, rejects, covered_shas,
                   raw_commits, clusterInput, contributions, listing_failed, clustering>>

MineNext ==
    \/ ListMergedPRs
    \/ ListMergedPRsGraphQLFails
    \/ ListMergedPRsRaises
    \/ MinePR
    \/ MinePRRaises
    \/ MinePRsDone
    \/ MineClusters
    \/ MineClustersRaises

SpecMine == MineInit /\ [][MineNext]_vars

-----------------------------------------------------------------------------
(* Claims about mine_repo, checked under SpecMine.                         *)

\* C2: every CommitPair mine_repo holds, under every configuration and in
\* both API modes, has code patches, test patches, a base SHA and a target
\* SHA, none of them empty.
C2_PairsAreComplete ==
    \A i \in DOMAIN pairs :
        /\ pairs[i].code_patches # <<>>
        /\ pairs[i].test_patches # <<>>
        /\ Truthy(pairs[i].base_sha)
        /\ Truthy(pairs[i].target_sha)

\* mine_repo returned a pair under min_code_changes = min_test_changes = 0,
\* where has_valid_patches lets every file list through, next to a PR that
\* was rejected for its missing test side.
C2_Witness ==
    /\ mpc = "returned"
    /\ config.min_code_changes = 0
    /\ config.min_test_changes = 0
    /\ pairs # <<>>
    /\ \E i \in DOMAIN rejects : rejects[i].reasons = <<"no test file changes">>

PairsOfPR(n) ==
    {i \in DOMAIN pairs :
        pairs[i].source_type = "pr" /\ pairs[i].source_id = ToString(n)}

RejectsOfPR(n) ==
    {i \in DOMAIN rejects :
        rejects[i].source_type = "pr" /\ rejects[i].source_id = ToString(n)}

C4_CodeOnlyPRRejectReason ==
    ( /\ mpc = "prs"
      /\ prN > 0
      /\ config.min_code_changes = DefaultMinCodeChanges
      /\ config.min_test_changes = DefaultMinTestChanges )
    => ( ( /\ pr.base # None
           /\ pr.merge # None
           /\ pr.files = <<File("src/alu.sv", 10, 2)>> )
         => /\ RejectsOfPR(pr.number) # {}
            /\ \A i \in RejectsOfPR(pr.number) :
                 rejects[i].reasons = <<"no test file changes">> )

\* C4 as amended: under the default thresholds that PR is rejected by the
\* quick filter, with the reasons ["insufficient code or test changes"].
C4_CodeOnlyPRInsufficient ==
    ( /\ mpc = "prs"
      /\ prN > 0
      /\ config.min_code_changes = DefaultMinCodeChanges
      /\ config.min_test_changes = DefaultMinTestChanges )
    => ( ( /\ pr.base # None
           /\ pr.merge # None
           /\ pr.files = <<File("src/alu.sv", 10, 2)>> )
         => /\ PairsOfPR(pr.number) = {}
            /\ Cardinality(RejectsOfPR(pr.number)) = 1
            /\ \A i \in RejectsOfPR(pr.number) :
                 rejects[i].reasons = <<"insufficient code or test changes">> )

\* The loop has just consumed such a PR under the default configuration.
C4_Witness ==
    /\ mpc = "prs"
    /\ prN > 0
    /\ config = DefaultMinerConfig
    /\ pr = [number |-> prN, merge |-> "m" \o ToString(prN), base |-> "aaaa",
             files |-> <<File("src/alu.sv", 10, 2)>>, files_error |-> FALSE]
    /\ RejectsOfPR(prN) # {}

\* C5: no commit that enters group_commits_by_author, and no commit of a
\* contribution, has a SHA of the covered set _mine_prs built.
C5_ClusterInputUncovered ==
    /\ \A i \in DOMAIN clusterInput : clusterInput[i].sha \notin covered_shas
    /\ \A k \in DOMAIN contributions :
         \A j \in DOMAIN contributions[k].commits :
            contributions[k].commits[j] \notin covered_shas

\* list_commits returned the merge commit of a PR together with other
\* commits, and the other commits entered the clustering.
C5_Witness ==
    /\ mpc = "returned"
    /\ clusterInput # <<>>
    /\ \E i \in DOMAIN raw_commits : raw_commits[i].sha \in covered_shas


ShasOf(commits) == {commits[i].sha : i \in DOMAIN commits}

\* The paths a commit of the repository touches.
RealPaths(sha) == {CommitFiles(sha)[i].filename : i \in DOMAIN CommitFiles(sha)}

\* additions + deletions of the files of type t the commits of a cluster
\* touch in the repository.
RECURSIVE RealTotal(_, _)
RealTotal(commits, t) ==
    IF commits = <<>> THEN 0
    ELSE LET files == CommitFiles(Head(commits).sha)
             RECURSIVE sum(_)
             sum(i) ==
                IF i > Len(files) THEN 0
                ELSE (IF classify_file(files[i].filename) = t
                      THEN files[i].additions + files[i].deletions ELSE 0) + sum(i + 1)
         IN  sum(1) + RealTotal(Tail(commits), t)

RECURSIVE PatchTotal(_)
PatchTotal(patches) ==
    IF patches = <<>> THEN 0
    ELSE Head(patches).additions + Head(patches).deletions + PatchTotal(Tail(patches))

\* x and y are consecutive commits of one author among the commits, 30 days
\* apart, and the Jaccard overlap of their paths is in [0.2, 0.5).
ThirtyDaysApartSomeOverlap(commits, x, y) ==
    /\ x.author = y.author
    /\ y.authored_date - x.authored_date = 30 * HoursPerDay
    /\ ~ \E z \in {commits[i] : i \in DOMAIN commits} :
            /\ z.author = x.author
            /\ x.authored_date < z.authored_date
            /\ z.authored_date < y.authored_date
    /\ LET common == Cardinality(RealPaths(x.sha) \cap RealPaths(y.sha))
           all == Cardinality(RealPaths(x.sha) \cup RealPaths(y.sha))
       IN  5 * common >= all /\ 2 * common < all

\* C13: when mine_repo runs cluster mining under the default MinerConfig,
\* the time window of the same-feature test is author_time_window_days (60
\* days), and two consecutive commits of one author 30 days apart whose
\* file overlap is at least 0.2 and below 0.5 are in the same cluster.
C13_DefaultWindowIsSixtyDays ==
    (config = DefaultMinerConfig /\ clustering # NoneObject) =>
        /\ clustering.time_window_days = config.author_time_window_days
        /\ \A x, y \in {clusterInput[i] : i \in DOMAIN clusterInput} :
             ThirtyDaysApartSomeOverlap(clusterInput, x, y) =>
                \E k \in DOMAIN clustering.feature_clusters :
                    {x.sha, y.sha} \subseteq ShasOf(clustering.feature_clusters[k])

\* C14: every contribution cluster mining emits has merged code changes of
\* at least min_code_changes and merged test changes of at least
\* min_test_changes; a cluster below either threshold is not emitted and has
\* a reject record (of which the formula asks no more than that it is a
\* record of a cluster).
C14_BelowThresholdClusterIsRejected ==
    clustering # NoneObject =>
        /\ \A k \in DOMAIN contributions :
             /\ PatchTotal(contributions[k].code_patches) >= config.min_code_changes
             /\ PatchTotal(contributions[k].test_patches) >= config.min_test_changes
        /\ \A j \in DOMAIN clustering.feature_clusters :
             LET cluster == clustering.feature_clusters[j]
             IN  ( \/ RealTotal(cluster, "code") < config.min_code_changes
                   \/ RealTotal(cluster, "test") < config.min_test_changes )
                 => /\ \A k \in DOMAIN contributions :
                         contributions[k].commits # [i \in DOMAIN cluster |-> cluster[i].sha]
                    /\ \E i \in DOMAIN rejects : rejects[i].source_type = "cluster"

RECURSIVE Additions(_)
Additions(patches) ==
    IF patches = <<>> THEN 0
    ELSE Head(patches).additions + Additions(Tail(patches))

\* C16: when the uncovered commits of the repository are c1, c2 and c3 (one
\* author, 12 days, each touching rtl/core.sv and test/core_tb.sv), the
\* commits enter the clustering with their files, and cluster mining emits
\* exactly one AuthorContribution, of the commits [c1, c2, c3], whose merged
\* code additions are the sum of the three commits' code additions.
C16_ThreeCommitsOneContribution ==
    ( /\ mpc \in {"returned", "raised"}
      /\ raw_commits # <<>>
      /\ ShasOf(raw_commits) \ covered_shas = {"c1", "c2", "c3"} )
    => /\ \A i \in DOMAIN clusterInput :
            PathsOf(clusterInput[i]) = RealPaths(clusterInput[i].sha)
       /\ Len(contributions) = 1
       /\ contributions[1].commits = <<"c1", "c2", "c3">>
       /\ Additions(contributions[1].code_patches)
            = Additions(SelectType(CommitFiles("c1"), "code"))
              + Additions(SelectType(CommitFiles("c2"), "code"))
              + Additions(SelectType(CommitFiles("c3"), "code"))

\* C17: when a request of the GraphQL listing of merged PRs failed, mine_repo
\* does not go on to mine the repository with the PRs fetched so far and
\* return as if the listing were complete: the failure is in a reject record
\* of the repository (a record that is not about one PR or one cluster).
C17_ListingFailureIsRejected ==
    (listing_failed /\ mpc \in {"clusters", "returned"}) =>
        \E i \in DOMAIN rejects : rejects[i].source_type \notin {"pr", "cluster"}

\* C18: in _mine_prs, every iteration that ends with a CommitPair or with a
\* reject, for whatever reason, leaves the merge commit SHA of its PR in
\* covered_shas when the PR carries a non-empty one, and no SHA ever leaves
\* covered_shas, up to the set _mine_prs returns.
C18_MergeShaAlwaysCovered ==
    [][ /\ covered_shas \subseteq covered_shas'
        /\ (prN' = prN + 1 /\ mpc' = "prs" /\ Truthy(pr'.merge))
              => pr'.merge \in covered_shas' ]_vars

\* _mine_prs returned after rejecting PR 1, whose merge commit is covered,
\* without having formed a pair.
C18_Witness ==
    /\ mpc \in {"clusters", "returned"}
    /\ RejectsOfPR(1) # {}
    /\ pairs = <<>>
    /\ "m1" \in covered_shas

-----------------------------------------------------------------------------
(* commit_miner.py: run_miner                                              *)

Whitespace == {" ", "\n", "\t", "\r"}

RECURSIVE lstrip(_)
lstrip(s) ==
    IF s = "" THEN ""
    ELSE IF Head(s) \in Whitespace THEN lstrip(Tail(s)) ELSE s

RECURSIVE rstrip(_)
rstrip(s) ==
    IF s = "" THEN ""
    ELSE IF CharAt(s, Len(s)) \in Whitespace
         THEN rstrip(SubSeq(s, 1, Len(s) - 1)) ELSE s

\* str.strip()
strip(s) == rstrip(lstrip(s))

Range(seq) == {seq[i] : i \in DOMAIN seq}

SeqsUpTo(S, n) == UNION {[1..k -> S] : k \in 0..n}

RepoA == "a/x"
RepoB == "b/y"

\* A line of input_path, by what the loop makes of it: a line that is blank
\* after strip(), a line json.loads rejects, or a JSON object, of which only
\* repo_data.get("repo", "") is read (repo "" stands for an object without
\* the key as well).
BlankLine == [kind |-> "blank", repo |-> ""]
InvalidJSONLine == [kind |-> "invalid", repo |-> ""]
CardLine(repo) == [kind |-> "card", repo |-> repo]

InputLines ==
    {BlankLine, InvalidJSONLine, CardLine(""), CardLine(RepoA), CardLine(RepoB)}

InputFiles == SeqsUpTo(InputLines, MaxLines)

\* The journal as a run can find it: absent, or a file of lines repo + "\n".
NoFile == [exists |-> FALSE, lines |-> <<>>]

JournalLine(repo) == repo \o "\n"

ProgressFiles ==
    {NoFile} \cup
    { [exists |-> TRUE, lines |-> l] :
        l \in { <<>>, <<JournalLine(RepoA)>>, <<JournalLine(RepoB)>>,
                <<JournalLine(RepoA), JournalLine(RepoB)>> } }

\* The lines json.dumps(asdict(record)) + "\n" of the output files are kept
\* as the records they serialise, over the fields that tell them apart.
PairLine(repo, source_id) ==
    [repo |-> repo, source_type |-> "pr", source_id |-> source_id]

RejectLine(repo, source_type, source_id, reason) ==
    [repo |-> repo, source_type |-> source_type, source_id |-> source_id,
     reasons |-> <<reason>>]

\* What earlier runs can have left in output_path and rejects_path.
EarlierOutputs == { <<>>, <<PairLine(RepoA, "7")>> }
EarlierRejects == { <<>>, <<RejectLine(RepoA, "pr", "8", "no test file changes")>> }

\* miner.mine_repo(repo) returning (pairs, rejects).
MineRepoReturns(repo) ==
    { [pairs |-> <<>>, rejects |-> <<>>],
      [pairs |-> <<PairLine(repo, "1")>>,
       rejects |-> <<RejectLine(repo, "pr", "2", "no Verilog/SV code changes")>>] }

\* What mine_repo holds in its lists pairs and rejects when it raises:
\* nothing when _mine_prs raises, the PR phase's records when _mine_clusters
\* raises.
CollectedAtRaise(repo) == MineRepoReturns(repo)

WrittenOfRaisedAll(collected) == collected

\* What the two loops of lines 376-380 write of it: the exception leaves the
\* try block at line 373, before pairs and rejects are bound.
WrittenOfRaised(collected) == [pairs |-> <<>>, rejects |-> <<>>]

\* str(e) of the exceptions miner.mine_repo(repo) raises.
MineRepoRaises ==
    {"500: pulls", "'NoneType' object has no attribute 'get'"}

\* for line in f: processed_repos.add(line.strip())
LoadedRepos(path, file) ==
    IF path # None /\ file.exists
    THEN {strip(file.lines[i]) : i \in DOMAIN file.lines}
    ELSE {}

\* mode = "a" if processed_repos else "w"
OpenMode(processed) == IF processed # {} THEN "a" ELSE "w"

\* open(path, mode) of an output file: what is on disk afterwards.
Opened(lines, m) == IF m = "w" THEN <<>> ELSE lines

\* The four "continue" of the loop before the try block.
Skips(line, processed) ==
    \/ line.kind = "blank"
    \/ line.kind = "invalid"
    \/ line.repo = ""
    \/ line.repo \in processed

ErrorRejectBare(repo, message) == RejectLine(repo, "repo", "", message)

\* The record the handler of "except Exception as e" writes.
ErrorReject(repo, message) ==
    RejectLine(repo, "repo", "", "processing error: " \o message)

\* with open(progress_path, "a") as prog_f: prog_f.write(repo + "\n")
JournalAppend(path, file, repo) ==
    IF path # None
    THEN [exists |-> TRUE, lines |-> Append(file.lines, JournalLine(repo))]
    ELSE file


\* mine_repo is not running.
MineIdle ==
    /\ config = DefaultMinerConfig
    /\ mpc = "idle"
    /\ nPRs = 0
    /\ prN = 0
    /\ pr = NoneObject
    /\ pairs = <<>>
    /\ rejects = <<>>
    /\ covered_shas = {}
    /\ raw_commits = <<>>
    /\ clusterInput = <<>>
    /\ contributions = <<>>
    /\ error = None
    /\ listing_failed = FALSE
    /\ clustering = NoneObject

RunInit ==
    /\ ResumeIdle
    /\ ListIdle
    /\ ScanIdle
    /\ MineIdle
    /\ PipeIdle
    /\ ReqIdle
    /\ ClusIdle
    /\ rpc = "start"
    /\ progress_path \in {None, "progress.txt"}
    /\ progress_file \in ProgressFiles
    /\ progress_path = None => progress_file = NoFile
    /\ output_file \in EarlierOutputs
    /\ rejects_file \in EarlierRejects
    /\ at_start = [progress |-> progress_file, output |-> output_file,
                   rejects |-> rejects_file]
    /\ in_f \in InputFiles
    /\ lineN = 0
    /\ processed_repos = {}
    /\ mode = None
    /\ mined = <<>>

\* "Load progress if resuming" and the choice of the mode.
LoadProgress ==
    /\ UNCHANGED otherThanRun
    /\ rpc = "start"
    /\ processed_repos' = LoadedRepos(progress_path, progress_file)
    /\ mode' = OpenMode(processed_repos')
    /\ rpc' = "open"
    /\ UNCHANGED <<progress_path, progress_file, output_file, rejects_file,
                   at_start, in_f, lineN, mined>>

\* The with statement opens the two output files and the input file.
OpenFiles ==
    /\ UNCHANGED otherThanRun
    /\ rpc = "open"
    /\ output_file' = Opened(output_file, mode)
    /\ rejects_file' = Opened(rejects_file, mode)
    /\ rpc' = "loop"
    /\ UNCHANGED <<progress_path, progress_file, at_start, in_f, lineN,
                   processed_repos, mode, mined>>

\* An iteration that ends in one of the "continue" before the try block.
SkipLine ==
    /\ UNCHANGED otherThanRun
    /\ rpc = "loop"
    /\ lineN < Len(in_f)
    /\ Skips(in_f[lineN + 1], processed_repos)
    /\ lineN' = lineN + 1
    /\ UNCHANGED <<rpc, progress_path, progress_file, output_file, rejects_file,
                   at_start, in_f, processed_repos, mode, mined>>

\* An iteration whose mine_repo returns: the records are written and
\* flushed, then the journal gets the repository's name.
MineRepoReturned ==
    /\ UNCHANGED otherThanRun
    /\ rpc = "loop"
    /\ lineN < Len(in_f)
    /\ ~Skips(in_f[lineN + 1], processed_repos)
    /\ \E repo \in {in_f[lineN + 1].repo} :
       \E r \in MineRepoReturns(repo) :
         /\ output_file' = output_file \o r.pairs
         /\ rejects_file' = rejects_file \o r.rejects
         /\ progress_file' = JournalAppend(progress_path, progress_file, repo)
         /\ mined' = Append(mined, [repo |-> repo, raised |-> None, collected |-> r])
    /\ lineN' = lineN + 1
    /\ UNCHANGED <<rpc, progress_path, at_start, in_f, processed_repos, mode>>

\* An iteration whose mine_repo raises, with whatever it had collected: the
\* handler writes one reject and the loop goes on.
MineRepoRaised ==
    /\ UNCHANGED otherThanRun
    /\ rpc = "loop"
    /\ lineN < Len(in_f)
    /\ ~Skips(in_f[lineN + 1], processed_repos)
    /\ \E repo \in {in_f[lineN + 1].repo} :
       \E message \in MineRepoRaises :
       \E collected \in CollectedAtRaise(repo) :
         /\ output_file' = output_file \o WrittenOfRaised(collected).pairs
         /\ rejects_file' = Append(rejects_file \o WrittenOfRaised(collected).rejects,
                                   ErrorReject(repo, message))
         /\ mined' = Append(mined, [repo |-> repo, raised |-> message,
                                    collected |-> collected])
    /\ lineN' = lineN + 1
    /\ UNCHANGED <<rpc, progress_path, progress_file, at_start,
                   in_f, processed_repos, mode>>

\* The input is exhausted: the files are closed and run_miner returns.
RunMinerReturns ==
    /\ UNCHANGED otherThanRun
    /\ rpc = "loop"
    /\ lineN = Len(in_f)
    /\ rpc' = "done"
    /\ UNCHANGED <<progress_path, progress_file, output_file, rejects_file,
                   at_start, in_f, lineN, processed_repos, mode, mined>>

RunNext ==
    \/ LoadProgress
    \/ OpenFiles
    \/ SkipLine
    \/ MineRepoReturned
    \/ MineRepoRaised
    \/ RunMinerReturns

SpecRunMiner == RunInit /\ [][RunNext]_vars


-----------------------------------------------------------------------------
(* Claims about run_miner, checked under SpecRunMiner.                     *)

\* The repository names of the journal on disk.
JournalNames(file) == {strip(file.lines[i]) : i \in DOMAIN file.lines}

\* The names of the repositories of the input stream.
InputRepoNames ==
    {in_f[i].repo : i \in {k \in DOMAIN in_f : in_f[k].kind = "card" /\ in_f[k].repo # ""}}

\* The lines this run has written to an output file that held earlier lines.
WrittenByRun(lines, earlier) ==
    IF mode = "a" THEN SubSeq(lines, Len(earlier) + 1, Len(lines)) ELSE lines

Count(seq, x) == Cardinality({i \in DOMAIN seq : seq[i] = x})

IsPrefix(a, b) == Len(a) <= Len(b) /\ SubSeq(b, 1, Len(a)) = a

\* C6: when run_miner is started with an existing journal that holds the
\* name of every repository of the input stream, mine_repo is called for no
\* repository and both output files keep exactly the content they had.
C6_FullJournalNoOutput ==
    ( /\ rpc \in {"loop", "done"}
      /\ progress_path # None
      /\ at_start.progress.exists
      /\ InputRepoNames \subseteq JournalNames(at_start.progress) )
    => /\ mined = <<>>
       /\ output_file = at_start.output
       /\ rejects_file = at_start.rejects

\* C7: with a progress journal, whenever the loop is about to take the next
\* input line, every record this run has written to the pairs or the rejects
\* file belongs to a repository whose name is in the journal.
C7_RecordsAreJournaled ==
    (rpc = "loop" /\ progress_path # None)
    => \A rec \in Range(WrittenByRun(output_file, at_start.output))
                  \cup Range(WrittenByRun(rejects_file, at_start.rejects)) :
         rec.repo \in JournalNames(progress_file)

\* C8: once the output files are open, they were opened in append mode and
\* still start with the earlier runs' records if a journal file existed when
\* run_miner started, and they were truncated only if none existed.
C8_AppendIffJournalExists ==
    rpc \in {"loop", "done"}
    => IF progress_path # None /\ at_start.progress.exists
       THEN /\ mode = "a"
            /\ IsPrefix(at_start.output, output_file)
            /\ IsPrefix(at_start.rejects, rejects_file)
       ELSE mode = "w"

\* The repositories the loop has to hand to mine_repo, in input order.
RECURSIVE ToMine(_, _)
ToMine(lines, processed) ==
    IF lines = <<>> THEN <<>>
    ELSE (IF Skips(Head(lines), processed) THEN <<>> ELSE <<Head(lines).repo>>)
         \o ToMine(Tail(lines), processed)

\* C9: for every call of mine_repo that raised, the rejects file holds one
\* record with source_type "repo", source_id "" and the single reason
\* "processing error: <message>" (as many such records as there were such
\* calls), nothing else with source_type "repo" is written, and the loop goes
\* on: when run_miner returns, mine_repo has been called for every
\* repository of the input that was not skipped, in input order.
C9_RaiseIsRejectedAndRunGoesOn ==
    LET written == WrittenByRun(rejects_file, at_start.rejects)
        raised == {i \in DOMAIN mined : mined[i].raised # None}
    IN  /\ \A i \in raised :
             Count(written, [repo |-> mined[i].repo, source_type |-> "repo",
                             source_id |-> "",
                             reasons |-> <<"processing error: " \o mined[i].raised>>])
             = Cardinality({j \in raised : /\ mined[j].repo = mined[i].repo
                                            /\ mined[j].raised = mined[i].raised})
        /\ Cardinality({k \in DOMAIN written : written[k].source_type = "repo"})
             = Cardinality(raised)
        /\ rpc \in {"open", "loop", "done"} =>
             [i \in DOMAIN mined |-> mined[i].repo]
               = SubSeq(ToMine(in_f, processed_repos), 1, Len(mined))
        /\ rpc = "done" => Len(mined) = Len(ToMine(in_f, processed_repos))

\* A run that has returned after mine_repo raised for one repository and
\* was then called for a later one.
C9_Witness ==
    /\ rpc = "done"
    /\ \E i \in DOMAIN mined : mined[i].raised # None /\ i < Len(mined)


\* C30: the step of the loop in which mine_repo raises for a repository
\* leaves the pairs file and the journal as they are and adds to the
\* rejects file the one "processing error" reject of the repository and
\* nothing else, whatever mine_repo had collected before it raised.
C30_RaiseWritesOnlyErrorReject ==
    [][ (Len(mined') = Len(mined) + 1 /\ mined'[Len(mined')].raised # None) =>
          /\ output_file' = output_file
          /\ progress_file' = progress_file
          /\ rejects_file' =
               Append(rejects_file,
                      [repo |-> mined'[Len(mined')].repo, source_type |-> "repo",
                       source_id |-> "",
                       reasons |-> <<"processing error: "
                                       \o mined'[Len(mined')].raised>>]) ]_vars

\* With a journal, mine_repo raised for a repository after it had collected
\* a pair and a PR-level reject of it.
C30_Witness ==
    /\ progress_path # None
    /\ \E i \in DOMAIN mined :
         /\ mined[i].raised # None
         /\ mined[i].collected.pairs # <<>>
         /\ mined[i].collected.rejects # <<>>

-----------------------------------------------------------------------------
(* pipeline.py: what evaluate_repo computes from the answers it gets       *)

\* The characters of the model's strings in code-point order: the order
\* sorted() compares strings by.
Alphabet == " -./0123456789ABCDEFGHIJKLMNOPQRSTUVWXYZ_abcdefghijklmnopqrstuvwxyz"

AlphabetChars == [i \in 1..Len(Alphabet) |-> CharAt(Alphabet, i)]

\* ord(c), up to the offset of the first character
Ord(c) == CHOOSE i \in DOMAIN AlphabetChars : AlphabetChars[i] = c

\* a < b on str
RECURSIVE StrLess(_, _)
StrLess(a, b) ==
    IF b = "" THEN FALSE
    ELSE IF a = "" THEN TRUE
    ELSE IF Head(a) = Head(b) THEN StrLess(Tail(a), Tail(b))
    ELSE Ord(Head(a)) < Ord(Head(b))

\* sorted(S) of a set of strings
RECURSIVE sorted(_)
sorted(S) ==
    IF S = {} THEN <<>>
    ELSE LET m == CHOOSE x \in S : \A y \in S : x = y \/ StrLess(x, y)
         IN  <<m>> \o sorted(S \ {m})

\* How a call of the GitHub client can end other than with data: it raises
\* requests.HTTPError (a status >= 400 the client does not map to None), or
\* it returns None (a 404 under get_json_or_none, or nothing of the awaited
\* shape).
Raises == [raises |-> TRUE]
Absent == [absent |-> TRUE]

EndsWith(s, suffix) ==
    Len(s) >= Len(suffix) /\ SubSeq(s, Len(s) - Len(suffix) + 1, Len(s)) = suffix

Min(a, b) == IF a <= b THEN a ELSE b

\* ---- config.py: PipelineConfig ----
DefaultPushedWithinDays == 180
DefaultMinStars == 100
DefaultMinSvRatio == <<30, 100>>
DefaultMinPrTotal == 0
DefaultMinIssueTotal == 50
DefaultMinCommitLast12m == 100
DefaultMinCommitLast6m == 30
DefaultMinTags == 5
DefaultMinReleases == 1
DefaultMaxScriptFiles == 20

\* The configurations of the model: the defaults, with the size thresholds
\* and the scan paths brought down to the size of the model's repositories,
\* and min_pr_total off with GraphQL (the defaults) or on with REST.
PipelineConfigs ==
    { [pushed_within_days |-> DefaultPushedWithinDays,
       min_stars |-> DefaultMinStars,
       min_sv_ratio |-> DefaultMinSvRatio,
       min_sv_files |-> pg[3],
       min_sv_lines |-> pg[4],
       min_pr_total |-> pg[1],
       min_issue_total |-> DefaultMinIssueTotal,
       min_commit_last_12m |-> DefaultMinCommitLast12m,
       min_commit_last_6m |-> DefaultMinCommitLast6m,
       min_tags |-> DefaultMinTags,
       min_releases |-> DefaultMinReleases,
       scan_paths |-> <<"README.md">>,
       scan_workflows |-> TRUE,
       scan_scripts_dir |-> TRUE,
       max_script_files |-> DefaultMaxScriptFiles,
       use_graphql |-> pg[2],
       verilog_extensions |-> <<".v", ".vh", ".sv", ".svh">>] :
      pg \in { <<DefaultMinPrTotal, TRUE, 3, 3>>, <<10, FALSE, 3, 0>> } }

\* ---- the candidate's own fields (lines 250-258) ----

\* datetime.now(timezone.utc), in days; pushed_at is [day |-> d] or None.
Today == 1000

within_days(pushed_at, days) == pushed_at.day >= Today - days

Candidate(n, archived, fork, stars, pushed_at) ==
    [full_name |-> "o/r" \o ToString(n), archived |-> archived, fork |-> fork,
     stargazers_count |-> stars, pushed_at |-> pushed_at]

\* The items discover_candidates can hold at position n (full names are
\* unique: the candidates are the values of a dict keyed by full_name).
Candidates(n) ==
    { Candidate(n, FALSE, FALSE, 150, [day |-> 990]),
      Candidate(n, TRUE, FALSE, 150, [day |-> 990]),
      Candidate(n, FALSE, TRUE, 50, [day |-> 600]),
      Candidate(n, FALSE, FALSE, 150, NoneObject) }

ItemReasons(it, cfg) ==
    (IF it.archived \/ it.fork THEN <<"archived_or_fork">> ELSE <<>>)
    \o (IF it.stargazers_count < cfg.min_stars THEN <<"min_stars">> ELSE <<>>)
    \o (IF it.pushed_at = NoneObject
           \/ ~within_days(it.pushed_at, cfg.pushed_within_days)
        THEN <<"pushed_at">> ELSE <<>>)

\* ---- languages (lines 260-268) ----

\* A Dict[str, int] is the sequence of its items.
DictGet(d, key, default) ==
    IF \E i \in DOMAIN d : d[i][1] = key
    THEN d[CHOOSE i \in DOMAIN d : d[i][1] = key][2]
    ELSE default

RECURSIVE SumValues(_)
SumValues(d) == IF d = <<>> THEN 0 ELSE Head(d)[2] + SumValues(Tail(d))

\* _language_ratio: the exact ratio <<numerator, denominator>>.
language_ratio(languages) ==
    IF SumValues(languages) = 0 THEN <<0, 1>>
    ELSE <<DictGet(languages, "Verilog", 0) + DictGet(languages, "SystemVerilog", 0),
           SumValues(languages)>>

RatioLT(r, t) == r[1] * t[2] < t[1] * r[2]

LanguageAnswers ==
    { Raises,
      [languages |-> <<>>],
      [languages |-> << <<"Verilog", 10>>, <<"C", 90>> >>],
      [languages |-> << <<"SystemVerilog", 60>>, <<"Verilog", 10>>, <<"C", 30>> >>] }

\* Line 266: _language_ratio(languages) if languages else 0.0
sv_ratio(answer) ==
    IF answer = Raises \/ answer.languages = <<>> THEN <<0, 1>>
    ELSE language_ratio(answer.languages)

LanguageReasons(answer, cfg) ==
    IF answer = Raises THEN <<"languages_api">>
    ELSE IF answer.languages # <<>>
            /\ RatioLT(language_ratio(answer.languages), cfg.min_sv_ratio)
    THEN <<"sv_ratio">>
    ELSE <<>>


\* ---- tree and HDL size (lines 270-304) ----

Blob(path) == [type |-> "blob", path |-> path]

TreeAnswers ==
    { Raises, Absent,
      [tree |-> <<>>],
      [tree |-> <<Blob("rtl/a.sv"), Blob("rtl/b.v"), Blob("rtl/c.svh")>>],
      [tree |-> <<Blob("rtl/a.sv"), [type |-> "tree", path |-> "rtl"], Blob("main.c"),
                  Blob("rtl/b.v")>>] }

IsSvBlob(entry, extensions) ==
    /\ entry.type = "blob"
    /\ \E k \in DOMAIN extensions : EndsWith(entry.path, extensions[k])

\* _count_sv_files
count_sv_files(tree, extensions) ==
    Cardinality({i \in DOMAIN tree : IsSvBlob(tree[i], extensions)})

\* sv_paths of evaluate_repo
SvPaths(tree, extensions) ==
    LET blobs == SelectSeq(tree, LAMBDA e : IsSvBlob(e, extensions))
    IN  [i \in DOMAIN blobs |-> blobs[i].path]

\* get_file_text answering with a text: the text is the list of its lines.
FileAnswers == { Raises, Absent, [text |-> <<"l1">>], [text |-> <<"l1", "l2", "l3">>] }

\* _count_sv_lines over the answers get_file_text gives for the paths, in
\* order: Raises when a request made before the break raises, else the total
\* and the number of get_file_text calls made.
count_sv_lines_no_break(answers, min_lines) ==
    LET RECURSIVE loop(_, _)
        loop(i, total) ==
            IF i > Len(answers) THEN [total |-> total, fetched |-> Len(answers)]
            ELSE IF answers[i] = Raises THEN Raises
            ELSE IF answers[i] = Absent THEN loop(i + 1, total)
            ELSE loop(i + 1, total + Len(answers[i].text))
    IN  loop(1, 0)

count_sv_lines(answers, min_lines) ==
    LET RECURSIVE loop(_, _)
        loop(i, total) ==
            IF i > Len(answers) THEN [total |-> total, fetched |-> Len(answers)]
            ELSE IF answers[i] = Raises THEN Raises
            ELSE IF answers[i] = Absent THEN loop(i + 1, total)
            ELSE IF total + Len(answers[i].text) >= min_lines
                 THEN [total |-> total + Len(answers[i].text), fetched |-> i]
                 ELSE loop(i + 1, total + Len(answers[i].text))
    IN  loop(1, 0)

\* The line count is taken: min_sv_lines is set and the file check failed.
NeedsLineCount(cfg, answer) ==
    /\ answer # Raises /\ answer # Absent
    /\ cfg.min_sv_lines # 0
    /\ ~(cfg.min_sv_files = 0
         \/ count_sv_files(answer.tree, cfg.verilog_extensions) >= cfg.min_sv_files)

\* What get_file_text answers for each HDL path of a tree answer, asked or
\* not.
LineAnswers(cfg, answer) ==
    IF answer # Raises /\ answer # Absent
    THEN [1..Len(SvPaths(answer.tree, cfg.verilog_extensions)) -> FileAnswers]
    ELSE {<<>>}

\* Lines 270-304: Raises when _count_sv_lines raises (no try around it),
\* else the reasons list afterwards, the two counts and the number of
\* get_file_text calls made for the line count.
SvSizeStep(cfg, rs, answer, line_answers) ==
    IF answer = Raises
    THEN [reasons |-> Append(rs, "tree_api"),
          sv_file_count |-> 0, sv_line_count |-> -1, fetched |-> 0]
    ELSE IF answer = Absent
    THEN [reasons |-> IF "tree_api" \notin Range(rs) THEN Append(rs, "tree_api") ELSE rs,
          sv_file_count |-> 0, sv_line_count |-> -1, fetched |-> 0]
    ELSE IF ~NeedsLineCount(cfg, answer)
    THEN [reasons |-> rs,        \* line_pass stays True
          sv_file_count |-> count_sv_files(answer.tree, cfg.verilog_extensions),
          sv_line_count |-> -1, fetched |-> 0]
    ELSE \* file_pass is false here
         IF count_sv_lines(line_answers, cfg.min_sv_lines) = Raises THEN Raises
         ELSE [reasons |->
                  IF count_sv_lines(line_answers, cfg.min_sv_lines).total
                        >= cfg.min_sv_lines
                  THEN rs ELSE Append(rs, "sv_size"),
               sv_file_count |-> count_sv_files(answer.tree, cfg.verilog_extensions),
               sv_line_count |-> count_sv_lines(line_answers, cfg.min_sv_lines).total,
               fetched |-> count_sv_lines(line_answers, cfg.min_sv_lines).fetched]

\* ---- CI files, scan paths, tool scan (lines 306-318) ----

ContentItem(type, dir, name) ==
    [type |-> type, name |-> name, path |-> dir \o "/" \o name]

WorkflowAnswers ==
    { Raises, Absent,
      [list |-> <<ContentItem("file", ".github/workflows", "ci.yml")>>],
      [list |-> <<ContentItem("dir", ".github/workflows", "old")>>] }

GitlabAnswers == { Raises, Absent, [text |-> <<"stages:">>] }

FileNames(list) ==
    LET files == SelectSeq(list, LAMBDA it : it.type = "file")
    IN  [i \in DOMAIN files |-> files[i].name]

\* _get_ci_files: Raises, or (has_ci, ci_files). The second request is made
\* only when the first found no workflow file.
get_ci_files(workflows, gitlab) ==
    IF workflows = Raises THEN Raises
    ELSE IF workflows # Absent /\ FileNames(workflows.list) # <<>>
    THEN [has_ci |-> TRUE, ci_files |-> FileNames(workflows.list)]
    ELSE IF gitlab = Raises THEN Raises
    ELSE IF gitlab # Absent /\ gitlab.text # <<>>
    THEN [has_ci |-> TRUE, ci_files |-> <<".gitlab-ci.yml">>]
    ELSE [has_ci |-> FALSE, ci_files |-> <<>>]

ScriptsAnswers ==
    { Raises, Absent, [list |-> <<ContentItem("file", "scripts", "run.sh")>>] }

WorkflowPaths(cfg, ci) ==
    IF cfg.scan_workflows
    THEN { IF ci[i] = ".gitlab-ci.yml" THEN ci[i] ELSE ".github/workflows/" \o ci[i] :
             i \in DOMAIN ci }
    ELSE {}

ScriptPaths(cfg, scripts) ==
    IF cfg.scan_scripts_dir /\ scripts # Absent
    THEN { scripts.list[i].path :
             i \in { k \in 1..Min(Len(scripts.list), cfg.max_script_files) :
                       scripts.list[k].type = "file" } }
    ELSE {}

\* _collect_scan_paths: Raises, or the sorted list of paths.
collect_scan_paths(cfg, ci, scripts) ==
    IF cfg.scan_scripts_dir /\ scripts = Raises THEN Raises
    ELSE [paths |-> sorted({ p \in Range(cfg.scan_paths) \cup WorkflowPaths(cfg, ci)
                                   \cup ScriptPaths(cfg, scripts) : p # "" })]

\* get_file_text answering with a text, by what scan_text finds in it.
Scanned(allow, deny) == [text |-> [allow |-> allow, deny |-> deny]]

ScanAnswers == { Raises, Absent, Scanned(TRUE, FALSE), Scanned(FALSE, TRUE) }

HitPaths(paths, answers, kind) ==
    SelectSeq(paths, LAMBDA q :
        \E i \in DOMAIN paths :
            /\ paths[i] = q
            /\ answers[i] # Absent
            /\ answers[i].text[kind])

\* _scan_repo_for_tools: Raises when a get_file_text raises, else the hits
\* (an evidence is kept as the path it was found in).
scan_repo_for_tools(paths, answers) ==
    IF \E i \in DOMAIN answers : answers[i] = Raises THEN Raises
    ELSE [allow_hits |-> HitPaths(paths, answers, "allow"),
          deny_hits |-> HitPaths(paths, answers, "deny")]

ToolReasons(hits) ==
    (IF hits.deny_hits # <<>> THEN <<"denylist_tools">> ELSE <<>>)
    \o (IF hits.allow_hits = <<>> THEN <<"allowlist_missing">> ELSE <<>>)


\* ---- PR and issue totals (lines 320-346) ----

TotalAnswers == { Raises, [total |-> 5], [total |-> 60] }

\* One of the two blocks: with the minimum set, a failed search is the
\* reason failed and a total under the minimum the reason below; without
\* it the search is made and its failure swallowed.
TotalReasons(min_total, answer, below, failed) ==
    IF min_total # 0
    THEN IF answer = Raises THEN <<failed>>
         ELSE IF answer.total < min_total THEN <<below>>
         ELSE <<>>
    ELSE <<>>

\* ---- commit counts (lines 348-364, _commit_count) ----

\* What the two requests of one _commit_count call answer: the GraphQL query
\* (Absent: no default branch ref or no history) and the REST listing.
CountAnswers ==
    { [graphql |-> Raises, rest |-> Raises],
      [graphql |-> Raises, rest |-> [count |-> 10]],
      [graphql |-> Absent, rest |-> [count |-> 10]],
      [graphql |-> [count |-> 120], rest |-> [count |-> 10]] }

\* _commit_count: what GraphQL returned if it was asked and did not raise,
\* else what REST returned, None (Absent) if REST raised.
commit_count(use_graphql, graphql, rest) ==
    IF use_graphql /\ graphql # Raises THEN graphql
    ELSE IF rest = Raises THEN Absent
    ELSE rest

CommitReasons(cfg, commit_12m, commit_6m) ==
    IF cfg.min_commit_last_12m # 0 \/ cfg.min_commit_last_6m # 0
    THEN IF commit_12m = Absent \/ commit_6m = Absent THEN <<"commit_count">>
         ELSE IF /\ commit_12m.count < cfg.min_commit_last_12m
                 /\ commit_6m.count < cfg.min_commit_last_6m
         THEN <<"commit_activity">>
         ELSE <<>>
    ELSE <<>>

\* ---- releases and tags (lines 366-383) ----

ReleaseAnswers == { Raises, [releases |-> <<>>], [releases |-> <<"v1">>] }

\* get_tags: the page of tags and what _estimate_total_from_link makes of
\* the Link header (None, or [total |-> n]).
TagAnswers ==
    { Raises,
      [tags |-> <<>>, estimate |-> NoneObject],
      [tags |-> <<"t1">>, estimate |-> NoneObject],
      [tags |-> <<"t1">>, estimate |-> [total |-> 7]] }

TagsCount(answer) ==
    IF answer.estimate # NoneObject THEN answer.estimate.total ELSE Len(answer.tags)

ReleaseReasons(cfg, releases, tags) ==
    IF cfg.min_releases # 0 \/ cfg.min_tags # 0
    THEN IF releases = Raises \/ tags = Raises THEN <<"release_or_tags_api">>
         ELSE IF \/ (cfg.min_releases # 0 /\ Len(releases.releases) >= cfg.min_releases)
                 \/ TagsCount(tags) >= cfg.min_tags
         THEN <<>>
         ELSE <<"release_or_tags">>
    ELSE <<>>

\* ---- the return (lines 385-408) and run_pipeline's write ----

RejectReasonsAsAppended(rs) == rs

\* sorted(set(reasons))
RejectReasons(rs) == sorted(Range(rs))

\* Of evaluate_repo's locals the one kept here for the card is sv_ratio; it
\* is assigned at line 266, before it is read.
InitialLocals == [sv_ratio |-> <<0, 1>>]

\* The RepoCard, over the fields taken from the item and the HDL ratio.
RepoCardOf(it, ls) ==
    [repo |-> it.full_name, stars |-> it.stargazers_count, pushed_at |-> it.pushed_at,
     sv_ratio |-> ls.sv_ratio]

RejectRecordOf(it, rs) == [repo |-> it.full_name, reasons |-> RejectReasons(rs)]

\* The pair evaluate_repo returns.
Returned(it, rs, ls) ==
    IF rs # <<>>
    THEN [card |-> NoneObject, reject |-> RejectRecordOf(it, rs)]
    ELSE [card |-> RepoCardOf(it, ls), reject |-> NoneObject]

\* json.dumps(asdict(record)) + "\n": a line of a stream is kept by the
\* repository it is about.
StreamLine(record) == [repo |-> record.repo]

\* if card: out_f.write(...) / elif reject: rej_f.write(...)
WrittenCards(lines, res) ==
    IF res.card # NoneObject THEN Append(lines, StreamLine(res.card)) ELSE lines

WrittenRejects(lines, res) ==
    IF res.card = NoneObject /\ res.reject # NoneObject
    THEN Append(lines, StreamLine(res.reject)) ELSE lines


-----------------------------------------------------------------------------
(* pipeline.py: run_pipeline and evaluate_repo, step by step               *)

PipeInit ==
    /\ ResumeIdle
    /\ ListIdle
    /\ ScanIdle
    /\ MineIdle
    /\ RunIdle
    /\ ReqIdle
    /\ ClusIdle
    /\ ppc = "discover"
    /\ pconfig \in PipelineConfigs
    /\ nCandidates = 0
    /\ candN = 0
    /\ item = NoneObject
    /\ reasons = <<>>
    /\ ci_files = <<>>
    /\ scan_paths = <<>>
    /\ result = NoneObject
    /\ cards_file = <<>>
    /\ rejected_file = <<>>
    /\ perror = None
    /\ locals = NoneObject
    /\ exchange = NoneObject

\* Both streams are opened with "w"; discover_candidates returns its list.
\* The items of the list are drawn as the loop reaches them.
DiscoverCandidates ==
    /\ UNCHANGED otherThanPipe
    /\ ppc = "discover"
    /\ \E n \in 0..MaxCandidates : nCandidates' = n
    /\ ppc' = "take"
    /\ exchange' = NoneObject
    /\ UNCHANGED <<pconfig, candN, item, reasons, ci_files, scan_paths, result, cards_file, rejected_file, perror, locals>>

\* The loop takes the next item and evaluate_repo makes the checks on the
\* item's own fields.
BeginEvaluate ==
    /\ UNCHANGED otherThanPipe
    /\ ppc = "take"
    /\ candN < nCandidates
    /\ \E it \in Candidates(candN + 1) :
         /\ item' = it
         /\ reasons' = ItemReasons(it, pconfig)
    /\ candN' = candN + 1
    /\ locals' = InitialLocals
    /\ ppc' = "languages"
    /\ exchange' = NoneObject
    /\ UNCHANGED <<pconfig, nCandidates, ci_files, scan_paths, result, cards_file, rejected_file, perror>>

\* get_languages, inside its try.
GetLanguages ==
    /\ UNCHANGED otherThanPipe
    /\ ppc = "languages"
    /\ \E answer \in LanguageAnswers :
         /\ reasons' = reasons \o LanguageReasons(answer, pconfig)
         /\ locals' = [locals EXCEPT !.sv_ratio = sv_ratio(answer)]
         /\ exchange' = [languages |-> answer]
    /\ ppc' = "tree"
    /\ UNCHANGED <<pconfig, nCandidates, candN, item, ci_files, scan_paths, result, cards_file, rejected_file, perror>>

\* get_tree inside its try, then the size check with _count_sv_lines
\* answering.
CheckSvSize ==
    /\ UNCHANGED otherThanPipe
    /\ ppc = "tree"
    /\ \E answer \in TreeAnswers :
       \E line_answers \in LineAnswers(pconfig, answer) :
       \E r \in {SvSizeStep(pconfig, reasons, answer, line_answers)} :
         /\ r # Raises
         /\ reasons' = r.reasons
         /\ exchange' = [tree |-> answer, files |-> line_answers,
                         fetched |-> r.fetched,
                         sv_file_count |-> r.sv_file_count,
                         sv_line_count |-> r.sv_line_count]
    /\ ppc' = "ci"
    /\ UNCHANGED <<pconfig, nCandidates, candN, item, ci_files, scan_paths, result, cards_file, rejected_file, perror, locals>>

\* get_file_text raises inside _count_sv_lines: evaluate_repo has no handler
\* and run_pipeline none either.
CountSvLinesRaises ==
    /\ UNCHANGED otherThanPipe
    /\ ppc = "tree"
    /\ \E answer \in TreeAnswers :
       \E line_answers \in LineAnswers(pconfig, answer) :
         SvSizeStep(pconfig, reasons, answer, line_answers) = Raises
    /\ ppc' = "raised"
    /\ perror' = "500: contents (HDL line count)"
    /\ exchange' = NoneObject
    /\ UNCHANGED <<pconfig, nCandidates, candN, item, reasons, ci_files, scan_paths, result, cards_file, rejected_file, locals>>

\* _get_ci_files answering.
GetCIFiles ==
    /\ UNCHANGED otherThanPipe
    /\ ppc = "ci"
    /\ \E workflows \in WorkflowAnswers :
       \E gitlab \in GitlabAnswers :
       \E r \in {get_ci_files(workflows, gitlab)} :
         /\ r # Raises
         /\ ci_files' = r.ci_files
    /\ ppc' = "scan_paths"
    /\ exchange' = NoneObject
    /\ UNCHANGED <<pconfig, nCandidates, candN, item, reasons, scan_paths, result, cards_file, rejected_file, perror, locals>>

\* list_contents or get_file_text raises inside _get_ci_files.
GetCIFilesRaises ==
    /\ UNCHANGED otherThanPipe
    /\ ppc = "ci"
    /\ \E workflows \in WorkflowAnswers :
       \E gitlab \in GitlabAnswers :
         get_ci_files(workflows, gitlab) = Raises
    /\ ppc' = "raised"
    /\ perror' = "500: contents (CI detection)"
    /\ exchange' = NoneObject
    /\ UNCHANGED <<pconfig, nCandidates, candN, item, reasons, ci_files, scan_paths, result, cards_file, rejected_file, locals>>

\* _collect_scan_paths answering.
CollectScanPaths ==
    /\ UNCHANGED otherThanPipe
    /\ ppc = "scan_paths"
    /\ \E scripts \in ScriptsAnswers :
       \E r \in {collect_scan_paths(pconfig, ci_files, scripts)} :
         /\ r # Raises
         /\ scan_paths' = r.paths
    /\ ci_files' = <<>>          \* only the card reads it from here on
    /\ ppc' = "scan"
    /\ exchange' = NoneObject
    /\ UNCHANGED <<pconfig, nCandidates, candN, item, reasons, result, cards_file, rejected_file, perror, locals>>

\* list_contents("scripts") raises inside _collect_scan_paths.
CollectScanPathsRaises ==
    /\ UNCHANGED otherThanPipe
    /\ ppc = "scan_paths"
    /\ \E scripts \in ScriptsAnswers :
         collect_scan_paths(pconfig, ci_files, scripts) = Raises
    /\ ppc' = "raised"
    /\ perror' = "500: contents (scan paths)"
    /\ exchange' = NoneObject
    /\ UNCHANGED <<pconfig, nCandidates, candN, item, reasons, ci_files, scan_paths, result, cards_file, rejected_file, locals>>

\* _scan_repo_for_tools answering, then the two checks on the hits.
ScanRepoForTools ==
    /\ UNCHANGED otherThanPipe
    /\ ppc = "scan"
    /\ \E answers \in [DOMAIN scan_paths -> ScanAnswers] :
       \E r \in {scan_repo_for_tools(scan_paths, answers)} :
         /\ r # Raises
         /\ reasons' = reasons \o ToolReasons(r)
    /\ scan_paths' = <<>>        \* not read from here on
    /\ ppc' = "pr_total"
    /\ exchange' = NoneObject
    /\ UNCHANGED <<pconfig, nCandidates, candN, item, ci_files, result, cards_file, rejected_file, perror, locals>>

\* get_file_text raises inside _scan_repo_for_tools.
ScanRepoForToolsRaises ==
    /\ UNCHANGED otherThanPipe
    /\ ppc = "scan"
    /\ \E answers \in [DOMAIN scan_paths -> ScanAnswers] :
         scan_repo_for_tools(scan_paths, answers) = Raises
    /\ ppc' = "raised"
    /\ perror' = "500: contents (tool scan)"
    /\ exchange' = NoneObject
    /\ UNCHANGED <<pconfig, nCandidates, candN, item, reasons, ci_files, scan_paths, result, cards_file, rejected_file, locals>>

\* search_issues_total for the PRs, inside its try.
PRTotal ==
    /\ UNCHANGED otherThanPipe
    /\ ppc = "pr_total"
    /\ \E answer \in TotalAnswers :
         reasons' = reasons \o TotalReasons(pconfig.min_pr_total, answer,
                                            "pr_total", "pr_total_api")
    /\ ppc' = "issue_total"
    /\ exchange' = NoneObject
    /\ UNCHANGED <<pconfig, nCandidates, candN, item, ci_files, scan_paths, result, cards_file, rejected_file, perror, locals>>

\* search_issues_total for the issues, inside its try.
IssueTotal ==
    /\ UNCHANGED otherThanPipe
    /\ ppc = "issue_total"
    /\ \E answer \in TotalAnswers :
         reasons' = reasons \o TotalReasons(pconfig.min_issue_total, answer,
                                            "issue_total", "issue_total_api")
    /\ ppc' = "commits"
    /\ exchange' = NoneObject
    /\ UNCHANGED <<pconfig, nCandidates, candN, item, ci_files, scan_paths, result, cards_file, rejected_file, perror, locals>>

\* The two calls of _commit_count and the check on them.
CommitCounts ==
    /\ UNCHANGED otherThanPipe
    /\ ppc = "commits"
    /\ \E a12 \in CountAnswers, a6 \in CountAnswers :
       \E c12 \in {commit_count(pconfig.use_graphql, a12.graphql, a12.rest)} :
       \E c6 \in {commit_count(pconfig.use_graphql, a6.graphql, a6.rest)} :
         /\ reasons' = reasons \o CommitReasons(pconfig, c12, c6)
         /\ exchange' = [last_12m |-> a12, last_6m |-> a6,
                         commit_12m |-> c12, commit_6m |-> c6]
    /\ ppc' = "releases"
    /\ UNCHANGED <<pconfig, nCandidates, candN, item, ci_files, scan_paths, result, cards_file, rejected_file, perror, locals>>

\* get_releases and get_tags, inside their try.
ReleasesOrTags ==
    /\ UNCHANGED otherThanPipe
    /\ ppc = "releases"
    /\ \E releases \in ReleaseAnswers, tags \in TagAnswers :
         reasons' = reasons \o ReleaseReasons(pconfig, releases, tags)
    /\ ppc' = "return"
    /\ exchange' = NoneObject
    /\ UNCHANGED <<pconfig, nCandidates, candN, item, ci_files, scan_paths, result, cards_file, rejected_file, perror, locals>>

\* evaluate_repo returns (None, RejectRecord) or (RepoCard, None).
EvaluateReturns ==
    /\ UNCHANGED otherThanPipe
    /\ ppc = "return"
    /\ result' = Returned(item, reasons, locals)
    /\ ppc' = "write"
    /\ exchange' = NoneObject
    /\ UNCHANGED <<pconfig, nCandidates, candN, item, reasons, ci_files, scan_paths, cards_file, rejected_file, perror, locals>>

\* run_pipeline writes the line and flushes; the loop goes on.
WriteResult ==
    /\ UNCHANGED otherThanPipe
    /\ ppc = "write"
    /\ cards_file' = WrittenCards(cards_file, result)
    /\ rejected_file' = WrittenRejects(rejected_file, result)
    /\ item' = NoneObject        \* evaluate_repo's frame is gone
    /\ reasons' = <<>>
    /\ result' = NoneObject
    /\ locals' = NoneObject
    /\ ppc' = "take"
    /\ exchange' = NoneObject
    /\ UNCHANGED <<pconfig, nCandidates, candN, ci_files, scan_paths, perror>>

\* The list is exhausted: the streams are closed and run_pipeline returns.
RunPipelineReturns ==
    /\ UNCHANGED otherThanPipe
    /\ ppc = "take"
    /\ candN = nCandidates
    /\ ppc' = "done"
    /\ exchange' = NoneObject
    /\ UNCHANGED <<pconfig, nCandidates, candN, item, reasons, ci_files, scan_paths, result, cards_file, rejected_file, perror, locals>>

PipeNext ==
    \/ DiscoverCandidates
    \/ BeginEvaluate
    \/ GetLanguages
    \/ CheckSvSize
    \/ CountSvLinesRaises
    \/ GetCIFiles
    \/ GetCIFilesRaises
    \/ CollectScanPaths
    \/ CollectScanPathsRaises
    \/ ScanRepoForTools
    \/ ScanRepoForToolsRaises
    \/ PRTotal
    \/ IssueTotal
    \/ CommitCounts
    \/ ReleasesOrTags
    \/ EvaluateReturns
    \/ WriteResult
    \/ RunPipelineReturns

SpecPipeline == PipeInit /\ [][PipeNext]_vars


-----------------------------------------------------------------------------
(* Claims about run_pipeline and evaluate_repo, checked under SpecPipeline. *)

\* C1: when evaluate_repo has returned, exactly one of card and reject is
\* there: the card iff no reason was appended, else a reject for the same
\* repository whose reasons are the appended ones in strictly ascending
\* order (sorted, no duplicates); and run_pipeline's streams never hold the
\* same repository both as accepted and as rejected, each evaluated
\* candidate being in exactly one of them.
C1_CardXorSortedReject ==
    /\ ppc = "write" =>
         /\ (result.card = NoneObject) # (result.reject = NoneObject)
         /\ (result.card # NoneObject) <=> (reasons = <<>>)
         /\ result.reject # NoneObject =>
              /\ result.reject.repo = item.full_name
              /\ Range(result.reject.reasons) = Range(reasons)
              /\ \A i, j \in DOMAIN result.reject.reasons :
                   i < j => StrLess(result.reject.reasons[i], result.reject.reasons[j])
    /\ \A i \in DOMAIN cards_file, j \in DOMAIN rejected_file :
         cards_file[i].repo # rejected_file[j].repo
    /\ ppc \in {"take", "done"} => Len(cards_file) + Len(rejected_file) = candN

\* A second candidate is returned as a reject whose three or more reasons
\* were appended in another order than the sorted one, after the first
\* candidate was accepted.
C1_Witness ==
    /\ ppc = "write"
    /\ cards_file # <<>>
    /\ result.reject # NoneObject
    /\ Len(result.reject.reasons) >= 3
    /\ result.reject.reasons # reasons

\* C10: no failure of a remote operation during the evaluation of a
\* candidate leaves run_pipeline as an exception; the run ends with every
\* candidate of the list evaluated and written to one of the streams.
C10_RemoteFailureNeverAbortsRun ==
    /\ ppc # "raised"
    /\ perror = None
    /\ ppc = "done" => Len(cards_file) + Len(rejected_file) = nCandidates

\* An answer of one of the two commit-count requests holds a count.
YieldsCount(a) == a # Raises /\ a # Absent

\* C21: with use_graphql enabled, _commit_count gives the REST count
\* whenever the GraphQL attempt yields no count, whether it raised or
\* returned without a count, and evaluate_repo reports commit_count only
\* when for one of the two windows neither request yields a count.
C21_RestFallbackWhenGraphQLYieldsNoCount ==
    (ppc = "releases" /\ pconfig.use_graphql) =>
        LET Fallback(a, c) ==
                (~YieldsCount(a.graphql) /\ YieldsCount(a.rest)) => c = a.rest
            NeitherYields(a) == ~YieldsCount(a.graphql) /\ ~YieldsCount(a.rest)
        IN  /\ Fallback(exchange.last_12m, exchange.commit_12m)
            /\ Fallback(exchange.last_6m, exchange.commit_6m)
            /\ "commit_count" \in Range(reasons) =>
                 \/ NeitherYields(exchange.last_12m)
                 \/ NeitherYields(exchange.last_6m)

\* C22: a RepoCard is returned only with an HDL ratio of at least
\* min_sv_ratio, and whenever get_languages answers and the ratio of the
\* answered map (0 for an empty map or a byte total of 0) is below
\* min_sv_ratio, the reason sv_ratio is appended.
C22_CardHasHdlRatio ==
    /\ (ppc = "write" /\ result.card # NoneObject) =>
          ~RatioLT(result.card.sv_ratio, pconfig.min_sv_ratio)
    /\ (ppc = "tree" /\ exchange.languages # Raises
          /\ RatioLT(language_ratio(exchange.languages.languages), pconfig.min_sv_ratio))
         => "sv_ratio" \in Range(reasons)

\* The lines of the first n of the files, a file without text counting 0.
RECURSIVE LinesOfFirst(_, _)
LinesOfFirst(files, n) ==
    IF n = 0 THEN 0
    ELSE LinesOfFirst(files, n - 1)
         + (IF files[n] # Raises /\ files[n] # Absent THEN Len(files[n].text) ELSE 0)

\* C23: after a successful tree fetch, sv_size is among the reasons iff the
\* HDL file count is below min_sv_files and the lines of all HDL files are
\* fewer than min_sv_lines; files are fetched for the line count only when
\* the file check failed, and each fetched file was fetched while the lines
\* of the files before it were fewer than min_sv_lines.
C23_SvSizeIffBothBelow ==
    (ppc = "ci" /\ exchange.tree # Raises /\ exchange.tree # Absent) =>
        /\ ("sv_size" \in Range(reasons)) <=>
             /\ exchange.sv_file_count < pconfig.min_sv_files
             /\ LinesOfFirst(exchange.files, Len(exchange.files)) < pconfig.min_sv_lines
        /\ exchange.sv_file_count =
             Cardinality({i \in DOMAIN exchange.tree.tree :
                            /\ exchange.tree.tree[i].type = "blob"
                            /\ \E k \in DOMAIN pconfig.verilog_extensions :
                                 EndsWith(exchange.tree.tree[i].path,
                                          pconfig.verilog_extensions[k])})
        /\ exchange.fetched > 0 => exchange.sv_file_count < pconfig.min_sv_files
        /\ exchange.fetched > 0 =>
             LinesOfFirst(exchange.files, exchange.fetched - 1) < pconfig.min_sv_lines

\* The file check failed, the first of two HDL files held min_sv_lines
\* lines and the second was not fetched: no sv_size.
C23_Witness ==
    /\ ppc = "ci"
    /\ exchange.tree # Raises /\ exchange.tree # Absent
    /\ Len(exchange.files) = 2
    /\ exchange.fetched = 1
    /\ exchange.sv_file_count < pconfig.min_sv_files
    /\ "sv_size" \notin Range(reasons)

-----------------------------------------------------------------------------
(* github_client.py: GitHubClient.request                                  *)

MaxClock == 4       \* the largest reading of time.time()

Digits == "0123456789"

DigitValue(c) == (CHOOSE i \in 1..Len(Digits) : CharAt(Digits, i) = c) - 1

\* int(s) of a string of decimal digits.
RECURSIVE int(_)
int(s) ==
    IF Len(s) = 1 THEN DigitValue(s)
    ELSE 10 * int(SubSeq(s, 1, Len(s) - 1)) + DigitValue(CharAt(s, Len(s)))

HTTP_FORBIDDEN == 403

\* A response of the server: its status, the two rate-limit headers and
\* the epoch second the server means by X-RateLimit-Reset.  remaining is
\* None, and reset_at is <<>>, in a response without the header; reset_at
\* is <<t>> in a response that announces the second t.
Response(status_code, remaining, reset_at) ==
    [status_code |-> status_code,
     headers |-> (IF remaining = None THEN <<>>
                  ELSE << <<"X-RateLimit-Remaining", remaining>> >>)
                 \o (IF reset_at = <<>> THEN <<>>
                     ELSE << <<"X-RateLimit-Reset", ToString(reset_at[1])>> >>),
     reset_at |-> reset_at]

Responses ==
    { Response(s, r, t) :
        s \in {200, HTTP_FORBIDDEN, 404, 500},
        r \in {None, "0", "1", "00"},
        t \in {<<>>, <<0>>, <<2>>, <<12>>} }

\* resp.status_code == 403 and resp.headers.get("X-RateLimit-Remaining") == "0"
RateLimitedAny403(r) == r.status_code = HTTP_FORBIDDEN

RateLimited(r) ==
    /\ r.status_code = HTTP_FORBIDDEN
    /\ DictGet(r.headers, "X-RateLimit-Remaining", None) = "0"

\* reset = int(resp.headers.get("X-RateLimit-Reset", "0"));
\* sleep_for = max(0, reset - int(time.time()))
sleep_for(r, now) == Max(0, int(DictGet(r.headers, "X-RateLimit-Reset", "0")) - now)

Attempt(a, outcome) == [method |-> a.method, url |-> a.url, outcome |-> outcome]

ConnectionError == "ConnectionError"

ReqInit ==
    /\ ResumeIdle
    /\ ListIdle
    /\ ScanIdle
    /\ MineIdle
    /\ RunIdle
    /\ PipeIdle
    /\ ClusIdle
    /\ qpc = "call"
    /\ args \in [method : {"GET", "POST"}, url : {"/graphql", "/repos/a/x"}]
    /\ attempts = <<>>
    /\ resp = NoneObject
    /\ clock = None
    /\ sleeps = <<>>

\* resp = self.session.request(method, url, **kwargs) and the test of the
\* response: on to the sleep when rate limited, "return resp" otherwise.
SendRequest ==
    /\ UNCHANGED otherThanReq
    /\ qpc = "call"
    /\ \E r \in Responses :
         /\ attempts' = Append(attempts, Attempt(args, r))
         /\ resp' = r
         /\ qpc' = IF RateLimited(r) THEN "limited" ELSE "returned"
    /\ UNCHANGED <<args, clock, sleeps>>

\* session.request raises (no response arrived): the exception leaves
\* request.
SendRequestRaises ==
    /\ UNCHANGED otherThanReq
    /\ qpc \in {"call", "slept"}
    /\ attempts' = Append(attempts, Attempt(args, ConnectionError))
    /\ qpc' = "raised"
    /\ UNCHANGED <<args, resp, clock, sleeps>>

\* The rate-limit branch up to time.sleep(sleep_for).
SleepUntilReset ==
    /\ UNCHANGED otherThanReq
    /\ qpc = "limited"
    /\ \E now \in 0..MaxClock :
         /\ clock' = now
         /\ sleeps' = Append(sleeps, sleep_for(resp, now))
    /\ qpc' = "slept"
    /\ UNCHANGED <<args, attempts, resp>>

\* resp = self.session.request(method, url, **kwargs), the second time, and
\* "return resp".
SendRequestAgain ==
    /\ UNCHANGED otherThanReq
    /\ qpc = "slept"
    /\ \E r \in Responses :
         /\ attempts' = Append(attempts, Attempt(args, r))
         /\ resp' = r
    /\ qpc' = "returned"
    /\ UNCHANGED <<args, clock, sleeps>>

ReqNext ==
    \/ SendRequest
    \/ SendRequestRaises
    \/ SleepUntilReset
    \/ SendRequestAgain

SpecRequest == ReqInit /\ [][ReqNext]_vars

-----------------------------------------------------------------------------
(* Claims about GitHubClient.request, checked under SpecRequest.           *)

\* The response is HTTP 403 and carries X-RateLimit-Remaining: 0.
IsRateLimitResponse(r) ==
    /\ r.status_code = 403
    /\ \E i \in DOMAIN r.headers : r.headers[i] = <<"X-RateLimit-Remaining", "0">>

\* The epoch second of X-RateLimit-Reset, 0 for a response without it.
ResetOf(r) == IF r.reset_at = <<>> THEN 0 ELSE r.reset_at[1]

\* C11: request makes at most two attempts, all of the request it was called
\* with.  When it returns after a first response that is 403 with
\* X-RateLimit-Remaining "0", it has slept once, max(0, reset - now) seconds,
\* has sent the request exactly once more and returns the second response;
\* after any other first response it has not slept, has sent nothing more
\* and returns the first response.
C11_RetryOnceIffRateLimited ==
    /\ Len(attempts) <= 2
    /\ \A i \in DOMAIN attempts :
         attempts[i].method = args.method /\ attempts[i].url = args.url
    /\ qpc = "returned" =>
         IF IsRateLimitResponse(attempts[1].outcome)
         THEN /\ Len(attempts) = 2
              /\ sleeps = <<Max(0, ResetOf(attempts[1].outcome) - clock)>>
              /\ resp = attempts[2].outcome
         ELSE /\ Len(attempts) = 1
              /\ sleeps = <<>>
              /\ resp = attempts[1].outcome

\* request returned the second response, again a rate-limit response, after
\* sleeping for a reset that lay in the future.
C11_Witness ==
    /\ qpc = "returned"
    /\ Len(attempts) = 2
    /\ IsRateLimitResponse(resp)
    /\ sleeps # <<>>
    /\ sleeps[1] > 0

-----------------------------------------------------------------------------
(* commit_cluster.py and diff_classifier.merge_patches, called on their    *)
(* own with commits that carry their file patches.                         *)

MaxClusterCommits == 3   \* commits in the list a clustering function is given
MaxPatchLists == 3       \* per-commit patch lists merge_patches is given

Patch(path, a, d) == FilePatchOf(File(path, a, d))

Commit(sha, author, authored_date, files) ==
    [sha |-> sha, message |-> "change " \o sha \o "\n\nbody", author |-> author,
     authored_date |-> authored_date, parents |-> <<>>, files |-> files]

\* The commits the lists are drawn from: a1 and a2 carry the same authored
\* date; a3 follows 30 days later and shares one of the four paths of a1 and
\* a3 together; a4 shares no path with the others; a5 touches the two test
\* benches; a6 touches no file; b1 is of another author.
ClusterPool ==
    { Commit("a1", "alice", 0,
             <<Patch("rtl/core.sv", 3, 1), Patch("test/core_tb.sv", 4, 0)>>),
      Commit("a2", "alice", 0, <<Patch("rtl/core.sv", 1, 0)>>),
      Commit("a3", "alice", 30 * HoursPerDay,
             <<Patch("rtl/core.sv", 2, 2), Patch("rtl/alu.sv", 5, 0),
               Patch("tb/alu_tb.sv", 6, 0)>>),
      Commit("a4", "alice", 120 * HoursPerDay,
             <<Patch("rtl/fpu.sv", 7, 0), Patch("tb/fpu_tb.sv", 8, 0)>>),
      Commit("a5", "alice", 200 * HoursPerDay,
             <<Patch("test/core_tb.sv", 1, 1), Patch("tb/alu_tb.sv", 0, 2)>>),
      Commit("a6", "alice", 201 * HoursPerDay, <<>>),
      Commit("b1", "bob", 2 * HoursPerDay,
             <<Patch("rtl/core.sv", 1, 0), Patch("test/core_tb.sv", 1, 0)>>) }

AuthorPool(author) == {c \in ClusterPool : c.author = author}

\* The time windows the callers pass: the one cluster_commits derives from
\* the default cluster_time_window_hours, and the default of the functions.
TimeWindows == {TimeWindowDays(DefaultClusterTimeWindowHours), DefaultAuthorTimeWindowDays}

\* The configurations of the miner, over the fields of the cluster phase.
ClusterConfigs ==
    { [DefaultMinerConfig EXCEPT !.min_commits_per_contribution = m,
                                 !.cluster_time_window_hours = h] :
        m \in {DefaultMinCommitsPerContribution, 2},
        h \in {DefaultClusterTimeWindowHours, LegacyWindowHours} }

\* The per-commit patch lists merge_patches is given.  The last list holds a
\* test patch of the path the first lists hold code patches of.
PatchOf(path, patch_type, a, d, text) ==
    [path |-> path, patch_type |-> patch_type, additions |-> a, deletions |-> d,
     patch |-> text]

PatchLists ==
    { <<>>,
      <<PatchOf("rtl/core.sv", "code", 3, 1, "@@ one")>>,
      <<PatchOf("rtl/core.sv", "code", 2, 0, "@@ two"),
        PatchOf("test/core_tb.sv", "test", 4, 0, "@@ tb")>>,
      <<PatchOf("test/core_tb.sv", "test", 1, 1, None),
        PatchOf("README.md", "other", 9, 9, "@@ doc")>>,
      <<PatchOf("rtl/alu.sv", "code", 5, 5, "@@ alu"),
        PatchOf("rtl/core.sv", "code", 0, 6, "@@ three")>>,
      <<PatchOf("rtl/core.sv", "test", 1, 0, "@@ moved")>> }

\* code_patches + test_patches of one merge, handed on as one patch list.
AsPatchList(m) == m.code \o m.test

\* The patch lists merged in two stages: the first i lists first, or the
\* lists after the first i first.
MergeHeadFirst(pl, i) ==
    merge_patches(<<AsPatchList(merge_patches(SubSeq(pl, 1, i)))>>
                  \o SubSeq(pl, i + 1, Len(pl)))

MergeTailFirst(pl, i) ==
    merge_patches(SubSeq(pl, 1, i)
                  \o <<AsPatchList(merge_patches(SubSeq(pl, i + 1, Len(pl))))>>)

\* The file records has_valid_patches is given (additions and deletions are
\* never negative) and the thresholds it is called with: 0, the default of
\* the parameters and the defaults of the configuration.
FileRecords ==
    { File("rtl/core.sv", 0, 0), File("rtl/core.sv", 2, 1), File("rtl/alu.sv", 5, 0),
      File("tb/core_tb.sv", 1, 0), File("tb/core_tb.sv", 3, 2), File("README.md", 9, 9) }

ChangeThresholds == {0, 1, DefaultMinCodeChanges}

ClusInit ==
    /\ ResumeIdle
    /\ ListIdle
    /\ ScanIdle
    /\ MineIdle
    /\ RunIdle
    /\ PipeIdle
    /\ ReqIdle
    /\ kpc = "call"
    /\ k_result = NoneObject
    /\ k_regrouped = {}
    /\ \/ /\ k_fn = "cluster_author_commits_by_feature"
          /\ k_commits \in ListingsOver(AuthorPool("alice"), MaxClusterCommits)
          /\ k_args \in [time_window_days : TimeWindows,
                         file_overlap_threshold : {Overlap02}]
          /\ k_patches = <<>>
       \/ /\ k_fn = "collect_author_contributions"
          /\ k_commits \in ListingsOver(ClusterPool, MaxClusterCommits)
          /\ k_args \in [time_window_days : TimeWindows,
                         min_commits : {DefaultMinCommitsPerContribution, 2}]
          /\ k_patches = <<>>
       \/ /\ k_fn = "cluster_commits"
          /\ k_commits \in ListingsOver(ClusterPool, MaxClusterCommits)
          /\ k_args \in [config : ClusterConfigs, covered_shas : {{}, {"a1"}}]
          /\ k_patches = <<>>
       \/ /\ k_fn = "merge_patches"
          /\ k_commits = <<>>
          /\ k_args = NoneObject
          /\ k_patches \in SeqsUpTo(PatchLists, MaxPatchLists)
       \/ /\ k_fn = "has_valid_patches"
          /\ k_commits = <<>>
          /\ k_args \in [files : SeqsUpTo(FileRecords, MaxPatchLists),
                         min_code : ChangeThresholds, min_test : ChangeThresholds]
          /\ k_patches = <<>>

CallClusterAuthorCommits ==
    /\ UNCHANGED otherThanClus
    /\ kpc = "call"
    /\ k_fn = "cluster_author_commits_by_feature"
    /\ \E r \in {cluster_author_commits_by_feature(
                    k_commits, k_args.time_window_days, k_args.file_overlap_threshold)} :
         k_result' = r
    /\ kpc' = "returned"
    /\ UNCHANGED <<k_fn, k_commits, k_args, k_patches, k_regrouped>>

CallCollectAuthorContributions ==
    /\ UNCHANGED otherThanClus
    /\ kpc = "call"
    /\ k_fn = "collect_author_contributions"
    /\ \E r \in {collect_author_contributions(
                    Repo, k_commits, k_args.time_window_days, k_args.min_commits)} :
         k_result' = r
    /\ kpc' = "returned"
    /\ UNCHANGED <<k_fn, k_commits, k_args, k_patches, k_regrouped>>

\* cluster_commits, called with the arguments _mine_clusters passes.
CallClusterCommits ==
    /\ UNCHANGED otherThanClus
    /\ kpc = "call"
    /\ k_fn = "cluster_commits"
    /\ \E r \in {cluster_commits(Repo, k_commits, k_args.config.cluster_time_window_hours,
                                 k_args.covered_shas)} :
         k_result' = r
    /\ kpc' = "returned"
    /\ UNCHANGED <<k_fn, k_commits, k_args, k_patches, k_regrouped>>

CallMergePatches ==
    /\ UNCHANGED otherThanClus
    /\ kpc = "call"
    /\ k_fn = "merge_patches"
    /\ \E r \in {merge_patches(k_patches)} : k_result' = r
    /\ k_regrouped' = {MergeHeadFirst(k_patches, i) : i \in 0..Len(k_patches)}
                      \cup {MergeTailFirst(k_patches, i) : i \in 0..Len(k_patches)}
    /\ kpc' = "returned"
    /\ UNCHANGED <<k_fn, k_commits, k_args, k_patches>>

CallHasValidPatches ==
    /\ UNCHANGED otherThanClus
    /\ kpc = "call"
    /\ k_fn = "has_valid_patches"
    /\ \E r \in {has_valid_patches(k_args.files, k_args.min_code, k_args.min_test)} :
         k_result' = [valid |-> r]
    /\ kpc' = "returned"
    /\ UNCHANGED <<k_fn, k_commits, k_args, k_patches, k_regrouped>>

ClusNext ==
    \/ CallClusterAuthorCommits
    \/ CallCollectAuthorContributions
    \/ CallClusterCommits
    \/ CallMergePatches
    \/ CallHasValidPatches

SpecCluster == ClusInit /\ [][ClusNext]_vars

-----------------------------------------------------------------------------
(* Claims about the clustering functions, checked under SpecCluster.       *)

\* The authored timestamp of the commit of k_commits with the given SHA.
DateOf(sha) ==
    (CHOOSE c \in Range(k_commits) : c.sha = sha).authored_date

\* C12: every AuthorContribution collect_author_contributions returns lists
\* its commits by strictly ascending authored timestamp (each later than its
\* predecessor), first_commit_date is the authored date of commits[0] and
\* last_commit_date that of commits[-1].
C12_CommitsStrictlyAscending ==
    (kpc = "returned" /\ k_fn = "collect_author_contributions") =>
        \A i \in DOMAIN k_result :
            LET shas == k_result[i].commits
            IN  /\ \A j \in 1..(Len(shas) - 1) : DateOf(shas[j]) < DateOf(shas[j + 1])
                /\ k_result[i].first_commit_date = DateOf(shas[1])
                /\ k_result[i].last_commit_date = DateOf(shas[Len(shas)])

\* C15: every contribution the miner's cluster mining emits holds at least
\* min_commits_per_contribution commits, whatever value is configured.
C15_AtLeastMinCommits ==
    (kpc = "returned" /\ k_fn = "cluster_commits") =>
        \A i \in DOMAIN k_result :
            Len(k_result[i].commits) >= k_args.config.min_commits_per_contribution

\* The commit belongs to the cluster: both file sets are non-empty and the
\* Jaccard overlap of the commit's paths with the paths of all commits of the
\* cluster is at least 0.5, or at least 0.2 with at most W whole days between
\* the cluster's last commit and the commit.
JoinsCluster(commit, cluster, W) ==
    LET cluster_paths == UNION {PathsOf(cluster[i]) : i \in DOMAIN cluster}
        common == Cardinality(cluster_paths \cap PathsOf(commit))
        all == Cardinality(cluster_paths \cup PathsOf(commit))
        days == (commit.authored_date - cluster[Len(cluster)].authored_date) \div 24
    IN  /\ cluster_paths # {}
        /\ PathsOf(commit) # {}
        /\ \/ days <= W /\ 5 * common >= all
           \/ 2 * common >= all

\* C19: cluster_author_commits_by_feature returns the commits in ascending
\* authored order, cut into non-empty clusters: every commit after the first
\* of a cluster joins the commits before it in the cluster by the
\* same-feature test (overlap with the union of their files; 0 when a file
\* set is empty), and the first commit of every later cluster fails the test
\* against the whole cluster before it.  Commits at day 0 and day 120 with
\* no common file form two clusters.
C19_SameFeatureRule ==
    (kpc = "returned" /\ k_fn = "cluster_author_commits_by_feature") =>
        LET flat == Flatten(k_result)
            W == k_args.time_window_days
        IN  /\ Len(flat) = Len(k_commits)
            /\ ShasOf(flat) = ShasOf(k_commits)
            /\ \A i \in 1..(Len(flat) - 1) :
                 flat[i].authored_date <= flat[i + 1].authored_date
            /\ \A k \in DOMAIN k_result :
                 /\ k_result[k] # <<>>
                 /\ \A j \in 2..Len(k_result[k]) :
                      JoinsCluster(k_result[k][j], SubSeq(k_result[k], 1, j - 1), W)
            /\ \A k \in 1..(Len(k_result) - 1) :
                 ~JoinsCluster(k_result[k + 1][1], k_result[k], W)
            /\ ShasOf(k_commits) = {"a1", "a4"} => Len(k_result) = 2

\* With W = 60, a3 joined a1 after 30 days on an overlap of 1/4, and a5
\* joined the two after 170 more days on an overlap of 1/2 with the union of
\* their files (its overlap with a3 alone is 1/4).
C19_Witness ==
    /\ kpc = "returned"
    /\ k_fn = "cluster_author_commits_by_feature"
    /\ k_args.time_window_days = DefaultAuthorTimeWindowDays
    /\ Len(k_result) = 1
    /\ [i \in DOMAIN k_result[1] |-> k_result[1][i].sha] = <<"a1", "a3", "a5">>

\* The patches of type t among the patches, and the sums over those of one
\* path.
RECURSIVE AdditionsOf(_, _, _)
AdditionsOf(patches, t, path) ==
    IF patches = <<>> THEN 0
    ELSE (IF Head(patches).patch_type = t /\ Head(patches).path = path
          THEN Head(patches).additions ELSE 0) + AdditionsOf(Tail(patches), t, path)

RECURSIVE DeletionsOf(_, _, _)
DeletionsOf(patches, t, path) ==
    IF patches = <<>> THEN 0
    ELSE (IF Head(patches).patch_type = t /\ Head(patches).path = path
          THEN Head(patches).deletions ELSE 0) + DeletionsOf(Tail(patches), t, path)

MergedSide(m, t) == IF t = "code" THEN m.code ELSE m.test

\* C20: for each path that occurs with type code, and separately with type
\* test, merge_patches returns exactly one FilePatch of that type and path;
\* its additions and deletions are the sums over all input patches of that
\* type and path, its diff text is that of the last of them; nothing else is
\* returned (patches of type other are dropped); and merging the lists in
\* two stages, however they are grouped, gives the same additions and
\* deletions.
C20_MergeIsAdditive ==
    (kpc = "returned" /\ k_fn = "merge_patches") =>
        LET all == Flatten(k_patches)
            At(t, path) == {i \in DOMAIN all : all[i].patch_type = t /\ all[i].path = path}
            Last(S) == CHOOSE i \in S : \A j \in S : j <= i
        IN  /\ \A t \in {"code", "test"} :
                 LET out == MergedSide(k_result, t)
                 IN  /\ \A i \in DOMAIN all :
                          all[i].patch_type = t =>
                             Cardinality({j \in DOMAIN out : out[j].path = all[i].path}) = 1
                     /\ \A j \in DOMAIN out :
                          /\ out[j].patch_type = t
                          /\ At(t, out[j].path) # {}
                          /\ out[j].additions = AdditionsOf(all, t, out[j].path)
                          /\ out[j].deletions = DeletionsOf(all, t, out[j].path)
                          /\ out[j].patch = all[Last(At(t, out[j].path))].patch
            /\ \A m \in k_regrouped :
                 /\ DOMAIN m.code = DOMAIN k_result.code
                 /\ DOMAIN m.test = DOMAIN k_result.test
                 /\ \A j \in DOMAIN m.code :
                      /\ m.code[j].path = k_result.code[j].path
                      /\ m.code[j].additions = k_result.code[j].additions
                      /\ m.code[j].deletions = k_result.code[j].deletions
                 /\ \A j \in DOMAIN m.test :
                      /\ m.test[j].path = k_result.test[j].path
                      /\ m.test[j].additions = k_result.test[j].additions
                      /\ m.test[j].deletions = k_result.test[j].deletions

\* Three patch lists were merged that touch rtl/core.sv as code three times
\* (3+2+0 additions, 1+0+6 deletions), the last time after rtl/alu.sv.
C20_Witness ==
    /\ kpc = "returned"
    /\ k_fn = "merge_patches"
    /\ Len(k_patches) = 3
    /\ \E j \in DOMAIN k_result.code :
         /\ k_result.code[j].path = "rtl/core.sv"
         /\ k_result.code[j].additions = 5
         /\ k_result.code[j].deletions = 7
         /\ k_result.code[j].patch = "@@ three"
    /\ k_result.test # <<>>

\* The changed lines (additions + deletions) of the file records whose path
\* classify_file gives the type t.
RECURSIVE ChangedLines(_, _)
ChangedLines(files, t) ==
    IF files = <<>> THEN 0
    ELSE ChangedLines(Tail(files), t)
         + (IF classify_file(Head(files).filename) = t
            THEN Head(files).additions + Head(files).deletions ELSE 0)

\* C26: has_valid_patches returns true iff the changed lines of all the
\* code files reach min_code and those of all the test files reach
\* min_test.
C26_ValidIffBothTotalsReached ==
    (kpc = "returned" /\ k_fn = "has_valid_patches") =>
        (k_result.valid <=>
            /\ ChangedLines(k_args.files, "code") >= k_args.min_code
            /\ ChangedLines(k_args.files, "test") >= k_args.min_test)

\* The loop returned true at the second of three files, before the end of
\* the list.
C26_Witness ==
    /\ kpc = "returned"
    /\ k_fn = "has_valid_patches"
    /\ Len(k_args.files) = 3
    /\ k_args.min_code = DefaultMinCodeChanges
    /\ k_args.min_test = DefaultMinCodeChanges
    /\ k_result.valid
    /\ ChangedLines(SubSeq(k_args.files, 1, 2), "code") >= k_args.min_code
    /\ ChangedLines(SubSeq(k_args.files, 1, 2), "test") >= k_args.min_test

\* C27: cluster_author_commits_by_feature returns no cluster for the empty
\* list, and for a non-empty list clusters that are all non-empty and whose
\* concatenation holds every commit of the input exactly once, ordered by
\* authored date, commits of the same date in the order of the input.
C27_ClustersPartitionInput ==
    (kpc = "returned" /\ k_fn = "cluster_author_commits_by_feature") =>
        /\ k_commits = <<>> => k_result = <<>>
        /\ k_commits # <<>> => k_result # <<>>
        /\ \A k \in DOMAIN k_result : Len(k_result[k]) >= 1
        /\ \E f \in [DOMAIN k_commits -> DOMAIN k_commits] :
             /\ \A i, j \in DOMAIN k_commits : i # j => f[i] # f[j]
             /\ Flatten(k_result) = [i \in DOMAIN k_commits |-> k_commits[f[i]]]
             /\ \A i, j \in DOMAIN k_commits :
                  i < j =>
                    \/ k_commits[f[i]].authored_date < k_commits[f[j]].authored_date
                    \/ /\ k_commits[f[i]].authored_date = k_commits[f[j]].authored_date
                       /\ f[i] < f[j]

\* Three commits given latest first came back as more than one cluster.
C27_Witness ==
    /\ kpc = "returned"
    /\ k_fn = "cluster_author_commits_by_feature"
    /\ Len(k_commits) = 3
    /\ \A i \in 1..2 : k_commits[i].authored_date > k_commits[i + 1].authored_date
    /\ Len(k_result) >= 2

-----------------------------------------------------------------------------
(* scanner.py: scan_text                                                   *)

\* config.py: the default vocabularies of PipelineConfig.
AllowlistTerms ==
    <<"iverilog", "verilator", "yosys", "symbiyosys", "sby", "sv2v", "surelog",
      "uhdm", "cocotb">>

DenylistTerms ==
    <<"Synopsys VCS", "VCS", "xrun", "xcelium", "questa", "modelsim", "dc_shell",
      "genus", "innovus", "primetime">>

\* sub in s
Contains(s, sub) ==
    \E i \in 1..(Len(s) - Len(sub) + 1) : SubSeq(s, i, i + Len(sub) - 1) = sub

\* \w of re, on the characters the model's lines use.
WordChars == "0123456789ABCDEFGHIJKLMNOPQRSTUVWXYZ_abcdefghijklmnopqrstuvwxyz"

IsWordChar(c) == \E i \in 1..Len(WordChars) : CharAt(WordChars, i) = c

\* \b of re before the character at position i of s (i = Len(s) + 1: at the
\* end): exactly one of the two neighbours is a word character.
WordBoundary(s, i) ==
    (i > 1 /\ IsWordChar(CharAt(s, i - 1))) # (i <= Len(s) /\ IsWordChar(CharAt(s, i)))

\* compile_allowlist(terms).search(text), compile_denylist(terms).search(text):
\* r"\b(" + "|".join(escaped) + r")\b" with re.IGNORECASE.
search(terms, text) ==
    \E k \in DOMAIN terms :
    \E i \in 1..(Len(text) - Len(terms[k]) + 1) :
        /\ lower(SubSeq(text, i, i + Len(terms[k]) - 1)) = lower(terms[k])
        /\ WordBoundary(text, i)
        /\ WordBoundary(text, i + Len(terms[k]))

\* re.search(r"\bvcs\b\s+[-+]", line_lower)
search_vcs_flag(line_lower) ==
    \E i \in 1..(Len(line_lower) - 2) :
        /\ SubSeq(line_lower, i, i + 2) = "vcs"
        /\ WordBoundary(line_lower, i)
        /\ WordBoundary(line_lower, i + 3)
        /\ \E j \in (i + 4)..Len(line_lower) :
             /\ \A k \in (i + 3)..(j - 1) : CharAt(line_lower, k) \in Whitespace
             /\ CharAt(line_lower, j) \in {"-", "+"}

is_false_positive_vcs(line_lower) ==
    Contains(line_lower, "version control") \/ Contains(line_lower, "version-control")

is_vcs_tool_usage_synopsys_only(line_lower) ==
    Contains(line_lower, "synopsys") /\ Contains(line_lower, "vcs")

is_vcs_tool_usage(line_lower) ==
    \/ Contains(line_lower, "synopsys") /\ Contains(line_lower, "vcs")
    \/ search_vcs_flag(line_lower)
    \/ Contains(line_lower, "vlogan")
    \/ Contains(line_lower, "vcs") /\ Contains(line_lower, "-full64")

\* Lines 51-60 for one line: TRUE when the line is appended to deny_hits.
deny_hit(text) ==
    /\ search(DenylistTerms, text)
    /\ search(<<"vcs">>, lower(text)) =>
         /\ ~is_false_positive_vcs(lower(text))
         /\ is_vcs_tool_usage(lower(text))

\* MatchEvidence, without the path and the pattern, which are the same for
\* every hit of one call.
MatchEvidence(line_number, text) == [line_number |-> line_number, line |-> strip(text)]

\* The lines a scanned text is made of.
ScanLines ==
    { "use your version control system (vcs) responsibly",
      "synopsys vcs -full64 +v2k",
      "  vcs -R top.v",
      "run vcs on the testbench",
      "vcs+define+SIM",
      "vlogan top.v; vcs top",
      "vcs top.v -full64",
      "Synopsys VCS is required",
      "version-control (vcs) uses -full64",
      "simulate with ModelSim",
      "modelsim or vcs",
      "questa; keep version control (VCS) tidy",
      "make sim with iverilog",
      "vcsim and cocotb",
      "" }

\* The two tests of lines 47 and 51-57, for each line of the model.
LineTests ==
    [text \in ScanLines |->
        [allow |-> search(AllowlistTerms, text), deny |-> deny_hit(text)]]

ScanInit ==
    /\ ResumeIdle
    /\ ListIdle
    /\ MineIdle
    /\ RunIdle
    /\ PipeIdle
    /\ ReqIdle
    /\ ClusIdle
    /\ scpc = "loop"
    /\ content \in SeqsUpTo(ScanLines, MaxScanLines)
    /\ idx = 0
    /\ allow_hits = <<>>
    /\ deny_hits = <<>>

\* One iteration of the loop over content.splitlines().
ScanLine ==
    /\ UNCHANGED otherThanScan
    /\ scpc = "loop"
    /\ idx < Len(content)
    /\ \E text \in {content[idx + 1]} :
         /\ allow_hits' = IF LineTests[text].allow
                          THEN Append(allow_hits, MatchEvidence(idx + 1, text))
                          ELSE allow_hits
         /\ deny_hits' = IF LineTests[text].deny
                         THEN Append(deny_hits, MatchEvidence(idx + 1, text))
                         ELSE deny_hits
    /\ idx' = idx + 1
    /\ UNCHANGED <<scpc, content>>

\* The loop is over: scan_text returns (allow_hits, deny_hits).
ScanTextReturns ==
    /\ UNCHANGED otherThanScan
    /\ scpc = "loop"
    /\ idx = Len(content)
    /\ scpc' = "returned"
    /\ UNCHANGED <<content, idx, allow_hits, deny_hits>>

ScanNext ==
    \/ ScanLine
    \/ ScanTextReturns

SpecScan == ScanInit /\ [][ScanNext]_vars

-----------------------------------------------------------------------------
(* Claims about scan_text, checked under SpecScan.                         *)

\* The words of a text: its maximal runs of word characters, in lower case.
Words(text) ==
    { lower(SubSeq(text, i, j)) :
        <<i, j>> \in { p \in (1..Len(text)) \X (1..Len(text)) :
                        /\ p[1] <= p[2]
                        /\ \A k \in p[1]..p[2] : IsWordChar(CharAt(text, k))
                        /\ p[1] = 1 \/ ~IsWordChar(CharAt(text, p[1] - 1))
                        /\ p[2] = Len(text) \/ ~IsWordChar(CharAt(text, p[2] + 1)) } }

\* The deny-list terms other than vcs (and Synopsys VCS, which holds vcs).
OtherDenyWords ==
    {"xrun", "xcelium", "questa", "modelsim", "dc_shell", "genus", "innovus", "primetime"}

\* The text splits at white space into fields; vcs is followed by a flag
\* when a field that ends with the word vcs is followed by a field that
\* starts with - or +.
VcsFollowedByFlag(text) ==
    \E i \in 1..Len(text), j \in 1..Len(text) :
        /\ i + 3 < j
        /\ lower(SubSeq(text, i, i + 2)) = "vcs"
        /\ i = 1 \/ ~IsWordChar(CharAt(text, i - 1))
        /\ \A k \in (i + 3)..(j - 1) : CharAt(text, k) \in Whitespace
        /\ CharAt(text, j) \in {"-", "+"}

HasDenyHit(n) == \E k \in DOMAIN deny_hits : deny_hits[k].line_number = n

\* The lines whose only deny-list word is vcs.
VcsOnlyLines ==
    { text \in ScanLines :
        "vcs" \in Words(text) /\ Words(text) \cap OtherDenyWords = {} }

\* The lines that mention neither "version control" nor "version-control"
\* and contain synopsys, or vcs followed by a -/+ flag, or vlogan, or
\* -full64 (in any case of the letters).
ToolUsageLines ==
    { text \in ScanLines :
        /\ ~Contains(lower(text), "version control")
        /\ ~Contains(lower(text), "version-control")
        /\ \/ Contains(lower(text), "synopsys")
           \/ VcsFollowedByFlag(text)
           \/ Contains(lower(text), "vlogan")
           \/ Contains(lower(text), "-full64") }

\* C24: a line taken by the loop whose only deny-list word is vcs is in
\* deny_hits iff it does not mention version control and it contains
\* synopsys, or vcs followed by a -/+ flag, or vlogan, or -full64.
C24_VcsHitIffToolUsage ==
    \A n \in 1..idx :
        content[n] \in VcsOnlyLines =>
            (HasDenyHit(n) <=> content[n] \in ToolUsageLines)

\* The two lines of the spec's example, scanned: the second is the one hit.
C24_Witness ==
    /\ scpc = "returned"
    /\ content = <<"use your version control system (vcs) responsibly",
                   "synopsys vcs -full64 +v2k">>
    /\ deny_hits = <<MatchEvidence(2, "synopsys vcs -full64 +v2k")>>

\* The lines that hold a deny-list word other than vcs.
OtherTermLines == { text \in ScanLines : Words(text) \cap OtherDenyWords # {} }

\* C29: a line taken by the loop that holds a deny-list word other than vcs
\* is in deny_hits, whatever else the line holds.
C29_OtherTermAlwaysHits ==
    \A n \in 1..idx :
        content[n] \in OtherTermLines => HasDenyHit(n)

-----------------------------------------------------------------------------
(* github_client.py: list_merged_prs_graphql and list_merged_prs_rest      *)

MaxListed == 3   \* PRs the server lists
PerPage == 2     \* PRs in one page (first: 50 and per_page = 100 in the code)

\* A PR of the server's listing: when it was merged (<<>>: closed without a
\* merge, mergedAt null) and when it was last updated, in days. The ISO
\* timestamps of the code are compared as strings, which orders them as
\* the times they denote.
ListedKinds(a) ==
    { [merged_at |-> <<1>>, updated_at |-> 1], [merged_at |-> <<1>>, updated_at |-> 4],
      [merged_at |-> <<3>>, updated_at |-> 3], [merged_at |-> <<3>>, updated_at |-> 4] }
    \cup (IF a = "rest" THEN {[merged_at |-> <<>>, updated_at |-> 2]} ELSE {})

\* What the server lists: states: [MERGED] (GraphQL) or state=closed
\* (REST), ordered by the last update, latest first. A PR's number is its
\* position in the listing.
ServerListings(a) ==
    { [i \in DOMAIN s |-> [number |-> i, merged_at |-> s[i].merged_at,
                           updated_at |-> s[i].updated_at]] :
        s \in { t \in SeqsUpTo(ListedKinds(a), MaxListed) :
                  \A i, j \in DOMAIN t : i < j => t[i].updated_at >= t[j].updated_at } }

\* since and merged_at and merged_at < since (GraphQL, line 211);
\* since and pr.get("merged_at") < since (REST, line 252)
OlderThanSince(node, s) ==
    s # <<>> /\ node.merged_at # <<>> /\ node.merged_at[1] < s[1]

ListInit ==
    /\ ResumeIdle
    /\ MineIdle
    /\ RunIdle
    /\ PipeIdle
    /\ ReqIdle
    /\ ClusIdle
    /\ ScanIdle
    /\ lpc = "page"
    /\ api \in {"graphql", "rest"}
    /\ server \in ServerListings(api)
    /\ since \in {<<>>, <<2>>}
    /\ max_prs \in {2, 100}
    /\ fetched = 0
    /\ taken = 0
    /\ prs = <<>>
    /\ page_failed = FALSE

\* The while test fails: the listing ends.
ListingFull ==
    /\ UNCHANGED otherThanList
    /\ lpc = "page"
    /\ Len(prs) >= max_prs
    /\ lpc' = "returned"
    /\ UNCHANGED <<api, server, since, max_prs, fetched, taken, prs, page_failed>>

\* The next page is requested and answered. REST ends on an empty page.
FetchPage ==
    /\ UNCHANGED otherThanList
    /\ lpc = "page"
    /\ Len(prs) < max_prs
    /\ fetched' = Min(fetched + PerPage, Len(server))
    /\ lpc' = IF api = "rest" /\ fetched' = fetched THEN "returned" ELSE "nodes"
    /\ UNCHANGED <<api, server, since, max_prs, taken, prs, page_failed>>

\* The page request fails: the GraphQL listing logs a warning and returns
\* what it has, the REST listing is left by the exception.
FetchPageFails ==
    /\ UNCHANGED otherThanList
    /\ lpc = "page"
    /\ Len(prs) < max_prs
    /\ page_failed' = TRUE
    /\ lpc' = IF api = "graphql" THEN "returned" ELSE "raised"
    /\ UNCHANGED <<api, server, since, max_prs, fetched, taken, prs>>

\* One iteration of the loop over the page's nodes; the loop is left by
\* break once max_prs PRs are there.
TakeNode ==
    /\ UNCHANGED otherThanList
    /\ lpc = "nodes"
    /\ taken < fetched
    /\ Len(prs) < max_prs
    /\ taken' = taken + 1
    /\ \E node \in {server[taken + 1]} :
         IF api = "rest" /\ node.merged_at = <<>>
         THEN UNCHANGED <<lpc, prs>>
         ELSE IF OlderThanSince(node, since)
         THEN lpc' = "returned" /\ UNCHANGED prs
         ELSE prs' = Append(prs, node) /\ UNCHANGED lpc
    /\ UNCHANGED <<api, server, since, max_prs, fetched, page_failed>>

\* The loop over the nodes is over: hasNextPage (GraphQL) or a full page
\* (REST) leads back to the while test.
EndOfPage ==
    /\ UNCHANGED otherThanList
    /\ lpc = "nodes"
    /\ taken = fetched \/ Len(prs) >= max_prs
    /\ lpc' = IF api = "graphql"
              THEN (IF fetched < Len(server) THEN "page" ELSE "returned")
              ELSE (IF fetched % PerPage # 0 THEN "returned" ELSE "page")
    /\ UNCHANGED <<api, server, since, max_prs, fetched, taken, prs, page_failed>>

ListNext ==
    \/ ListingFull
    \/ FetchPage
    \/ FetchPageFails
    \/ TakeNode
    \/ EndOfPage

SpecListing == ListInit /\ [][ListNext]_vars

-----------------------------------------------------------------------------
(* Claims about the merged-PR listings, checked under SpecListing.         *)

\* C25: no PR merged before the horizon is returned, and when the listing
\* has returned with every page request answered and fewer than max_prs
\* PRs, every merged PR of the server's listing whose mergedAt is within
\* the horizon is among the PRs returned.
C25_EarlyStopIsSound ==
    /\ \A k \in DOMAIN prs : ~OlderThanSince(prs[k], since)
    /\ (lpc = "returned" /\ ~page_failed /\ Len(prs) < max_prs) =>
          \A i \in DOMAIN server :
              (server[i].merged_at # <<>>
                 /\ (since = <<>> \/ server[i].merged_at[1] >= since[1]))
              => \E k \in DOMAIN prs : prs[k].number = i

-----------------------------------------------------------------------------
(* commit_miner.py: run_miner, interrupted and run again on the same files *)

MaxRuns == 2   \* runs of run_miner on the same files

\* The input files that name no repository twice (the RepoCard stream holds
\* one line per repository).
InputFilesOfCards ==
    { f \in InputFiles :
        \A i, j \in DOMAIN f :
            (i # j /\ f[i].kind = "card" /\ f[j].kind = "card" /\ f[i].repo # "")
              => f[i].repo # f[j].repo }

\* The first run, with a journal path, on files that do not exist yet.
ResumeInit ==
    /\ MineIdle
    /\ PipeIdle
    /\ ReqIdle
    /\ ClusIdle
    /\ ScanIdle
    /\ ListIdle
    /\ runs = 1
    /\ rpc = "start"
    /\ progress_path = "progress.txt"
    /\ progress_file = NoFile
    /\ output_file = <<>>
    /\ rejects_file = <<>>
    /\ at_start = [progress |-> progress_file, output |-> output_file,
                   rejects |-> rejects_file]
    /\ in_f \in InputFilesOfCards
    /\ lineN = 0
    /\ processed_repos = {}
    /\ mode = None
    /\ mined = <<>>

\* The run is interrupted between two iterations of the loop or while
\* mine_repo runs (KeyboardInterrupt is no Exception, the handler of line
\* 397 does not take it): the with statement closes the files and nothing
\* of the repository in progress is written.
Interrupted ==
    /\ UNCHANGED otherThanRun
    /\ rpc = "loop"
    /\ rpc' = "interrupted"
    /\ UNCHANGED <<progress_path, progress_file, output_file, rejects_file,
                   at_start, in_f, lineN, processed_repos, mode, mined>>

\* The run is interrupted after the flush of line 383 and before the
\* journal is written at lines 390-391.
InterruptedBeforeJournal ==
    /\ UNCHANGED otherThanRun
    /\ rpc = "loop"
    /\ lineN < Len(in_f)
    /\ ~Skips(in_f[lineN + 1], processed_repos)
    /\ \E repo \in {in_f[lineN + 1].repo} :
       \E r \in MineRepoReturns(repo) :
         /\ output_file' = output_file \o r.pairs
         /\ rejects_file' = rejects_file \o r.rejects
         /\ mined' = Append(mined, [repo |-> repo, raised |-> None, collected |-> r])
    /\ lineN' = lineN + 1
    /\ rpc' = "interrupted"
    /\ UNCHANGED <<progress_path, progress_file, at_start, in_f, processed_repos, mode>>

\* run_miner is called again with the same paths.
StartAgain ==
    /\ UNCHANGED <<mineVars, pipeVars, reqVars, clusVars, scanVars, listVars>>
    /\ rpc \in {"interrupted", "done"}
    /\ runs < MaxRuns
    /\ runs' = runs + 1
    /\ rpc' = "start"
    /\ at_start' = [progress |-> progress_file, output |-> output_file,
                    rejects |-> rejects_file]
    /\ lineN' = 0
    /\ processed_repos' = {}
    /\ mode' = None
    /\ mined' = <<>>
    /\ UNCHANGED <<progress_path, progress_file, output_file, rejects_file, in_f>>

ResumeNext ==
    \/ LoadProgress
    \/ OpenFiles
    \/ SkipLine
    \/ MineRepoReturned
    \/ MineRepoRaised
    \/ RunMinerReturns
    \/ Interrupted
    \/ InterruptedBeforeJournal
    \/ StartAgain

SpecResume == ResumeInit /\ [][ResumeNext]_vars

-----------------------------------------------------------------------------
(* Claims about runs of run_miner on the same files, checked under         *)
(* SpecResume.                                                             *)

\* C28: over the runs of run_miner on one journal and one pair of output
\* files, interrupted or not, neither output file ever holds a record of a
\* repository twice.
C28_RecordsAtMostOnce ==
    /\ \A i, j \in DOMAIN output_file : i # j => output_file[i] # output_file[j]
    /\ \A i, j \in DOMAIN rejects_file : i # j => rejects_file[i] # rejects_file[j]

=============================================================================
